---- MODULE Spec2Model ----
(***************************************************************************)
(* A model of the IR generator of pl_comp.py: the function contexts        *)
(* (Func), the scope chain (Scope) and the recursive expression compiler   *)
(* pl_comp_expr / pl_comp_expr_tmp with its handlers.                      *)
(*                                                                         *)
(* The recursion of the compiler is an explicit control stack `cs` of      *)
(* frames, one per active Python call; a frame holds the handler's name,   *)
(* its position and its local variables.  The program being compiled is    *)
(* the input: each handler draws the shape of its node when it is          *)
(* dispatched, so a behaviour of the model is the compilation of one       *)
(* program, and the behaviours together are the compilations of every      *)
(* program of at most `budget` nodes nested at most MaxNest deep.          *)
(***************************************************************************)
EXTENDS Integers, Sequences, FiniteSets, TLC

VARIABLES
    ctx,      \* the Func objects: ctx[1] is the root Func(None), ctx[i+2] is funcs[i]
    cs,       \* control stack of the compiler (the Python call stack)
    rv,       \* the (type, index) pair returned by the call that returned last
    status,   \* "compiling", "compiled", or the exception that ended the run
    msg,      \* the message of that exception ("" when there is none)
    nodes,    \* number of nodes of the input program committed so far
    budget,   \* the size of the input program is at most budget nodes
    lang,     \* the expression forms the input program is written with
    ty,       \* a type expression handed to validate_type, and what it returned
    cpu       \* the machine that runs the generated code: registers, stacks, position

vars == <<ctx, cs, rv, status, msg, nodes, budget, lang, ty, cpu>>

----------------------------------------------------------------------------
(* Bounds of the input programs.                                           *)

\* nodes of a program drawn from the whole language
MaxNodes == 4
\* nodes of a program drawn from the control-flow forms
MaxNodesFlow == 8
\* nodes of a program drawn from the expression forms
MaxNodesExpr == 7
\* nodes of a program drawn from the function forms
MaxNodesFunc == 6
\* nodes of a program drawn from the forms of nested functions without parameters
MaxNodesEnv == 8
MaxNodesRet == 6
\* nesting depth of the nodes below a function body
MaxNest == 4
\* functions of a program, main included
MaxFuncs == 3
\* parameters of a function, arguments of a call or syscall
MaxArgs == 2

\* names of variables and of functions in the input programs
Names == {"a", "b"}
FuncNames == {"f"}

----------------------------------------------------------------------------
(* Types.  A type is a tuple of strings, as in the source.  The Python     *)
(* string 'void' (returned by break/continue) is a sequence of characters: *)
(* 'void'[0] is "v", and it is not equal to the tuple ('void',).           *)

TVoid == <<"void">>
TInt  == <<"int">>
TByte == <<"byte">>
SVoid == <<"v", "o", "i", "d">>

Last(s) == s[Len(s)]
Front(s) == SubSeq(s, 1, Len(s) - 1)
Tail2(s) == SubSeq(s, 2, Len(s))

RECURSIVE validate_type(_)
\* validate_type that returns (head,) and forgets the validated body of a pointer
validate_type_head(tp) ==
    IF Len(tp) = 0 THEN <<"!", "type missing">>
    ELSE LET head == tp[1]
             body == Tail2(tp)
         IN  IF head = "ptr"
             THEN LET b == validate_type(body)
                  IN  IF b[1] = "!" THEN b
                      ELSE IF b = TVoid THEN <<"!", "bad pointer element">>
                      ELSE <<head>>
             ELSE IF head \in {"void", "int", "byte"}
             THEN IF Len(body) > 0 THEN <<"!", "bad scalar type">> ELSE <<head>>
             ELSE <<"!", "unknown type">>

\* validate_type applied to a list of strings; <<"!", reason>> stands for the ValueError
validate_type(tp) ==
    IF Len(tp) = 0 THEN <<"!", "type missing">>
    ELSE LET head == tp[1]
             body == Tail2(tp)
         IN  IF head = "ptr"
             THEN LET b == validate_type(body)
                  IN  IF b[1] = "!" THEN b
                      ELSE IF b = TVoid THEN <<"!", "bad pointer element">>
                      ELSE <<head>> \o b
             ELSE IF head \in {"void", "int", "byte"}
             THEN IF Len(body) > 0 THEN <<"!", "bad scalar type">> ELSE <<head>>
             ELSE <<"!", "unknown type">>

----------------------------------------------------------------------------
(* Scope and Func.                                                         *)

NoMap == [k \in {} |-> 0]

\* Scope(prev): prev is the scope chain (innermost last), <<>> for None
Scope(prev) ==
    [ nlocal     |-> 0,
      names      |-> NoMap,     \* variable name -> [tp, idx]
      fnames     |-> NoMap,     \* <<function name, argument types>> -> [tp, idx]
      save       |-> 0,
      enter      |-> [stack |-> 0, nvar |-> 0],   \* history: stack and nvar at scope_enter
      loop_start |-> IF prev = <<>> THEN -1 ELSE Last(prev).loop_start,
      loop_end   |-> IF prev = <<>> THEN -1 ELSE Last(prev).loop_end ]

\* Func(prev) that takes the level of its parent
Func_level_of_parent(prev, prevlevel) ==
    [ prev   |-> prev,
      level  |-> prevlevel,
      rtype  |-> <<>>,
      scope  |-> <<Scope(<<>>)>>,
      code   |-> <<>>,
      nvar   |-> 0,
      stack  |-> 0,
      labels |-> <<>>,
      nset   |-> <<>> ]

\* Func(prev): prev is the index in ctx of the parent, 0 for None
Func(prev, prevlevel) ==
    [ prev   |-> prev,
      level  |-> IF prev # 0 THEN prevlevel + 1 ELSE 0,
      rtype  |-> <<>>,
      scope  |-> <<Scope(<<>>)>>,
      code   |-> <<>>,
      nvar   |-> 0,
      stack  |-> 0,
      labels |-> <<>>,          \* label id l is labels[l+1]; -1 is None
      nset   |-> <<>> ]         \* history: how many times set_label bound the label

\* scope_enter that leaves save at its initial value
scope_enter_unsaved(F) ==
    [F EXCEPT !.scope = Append(@, [Scope(F.scope) EXCEPT
                                     !.enter = [stack |-> F.stack, nvar |-> F.nvar]])]

scope_enter(F) ==
    [F EXCEPT !.scope = Append(@, [Scope(F.scope) EXCEPT
                                     !.save = F.stack,
                                     !.enter = [stack |-> F.stack, nvar |-> F.nvar]])]

\* scope_leave that forgets the locals of the scope in nvar
scope_leave_keeps_nvar(F) ==
    [F EXCEPT !.stack = Last(F.scope).save,
              !.scope = Front(@)]

scope_leave(F) ==
    [F EXCEPT !.stack = Last(F.scope).save,
              !.nvar  = @ - Last(F.scope).nlocal,
              !.scope = Front(@)]

\* add_var that records the index after nvar has advanced
add_var_bind_late(F, name, tp) ==
    [F EXCEPT !.scope[Len(F.scope)].names = [k \in DOMAIN @ \cup {name} |->
                                               IF k = name THEN [tp |-> tp, idx |-> F.nvar + 1]
                                               ELSE @[k]],
              !.scope[Len(F.scope)].nlocal = @ + 1]

\* the part of add_var before its assertion
add_var_bind(F, name, tp) ==
    [F EXCEPT !.scope[Len(F.scope)].names = [k \in DOMAIN @ \cup {name} |->
                                               IF k = name THEN [tp |-> tp, idx |-> F.nvar]
                                               ELSE @[k]],
              !.scope[Len(F.scope)].nlocal = @ + 1]

\* the part of add_var after its assertion; the slot returned is F.stack
add_var_alloc(F) ==
    [F EXCEPT !.stack = @ + 1, !.nvar = @ + 1]

add_var(F, name, tp) == add_var_alloc(add_var_bind(F, name, tp))

\* tmp() that hands out the top slot without growing the stack
tmp_not_grown(F) == F

\* tmp(): the slot returned is F.stack
tmp(F) == [F EXCEPT !.stack = @ + 1]

\* new_label(): the label returned is Len(F.labels)
new_label(F) == [F EXCEPT !.labels = Append(@, -1), !.nset = Append(@, 0)]

\* set_label that binds the label to the location after the next instruction
set_label_next(F, l) ==
    [F EXCEPT !.labels[l + 1] = Len(F.code) + 1, !.nset[l + 1] = @ + 1]

set_label(F, l) ==
    [F EXCEPT !.labels[l + 1] = Len(F.code), !.nset[l + 1] = @ + 1]

emit(F, ins) == [F EXCEPT !.code = Append(@, ins)]

\* move_to(fenv, var, dst); the slot returned is dst
move_to(F, var, dst) == IF dst # var THEN emit(F, <<"mov", var, dst>>) ELSE F

\* scope_get_var on the map fld ("names" or "fnames") of a scope chain
RECURSIVE scope_get_var(_, _, _)
scope_get_var(scope, fld, key) ==
    IF scope = <<>> THEN [tp |-> <<>>, idx |-> -1]
    ELSE IF key \in DOMAIN Last(scope)[fld] THEN Last(scope)[fld][key]
    ELSE scope_get_var(Front(scope), fld, key)

\* Func.get_var; level -1 stands for ValueError('undefined name')
RECURSIVE get_var(_, _, _, _)
get_var(c, f, fld, key) ==
    LET r == scope_get_var(c[f].scope, fld, key)
    IN  IF r.idx >= 0 THEN [level |-> c[f].level, tp |-> r.tp, var |-> r.idx]
        ELSE IF c[f].prev = 0 THEN [level |-> -1, tp |-> <<>>, var |-> -1]
        ELSE get_var(c, c[f].prev, fld, key)

----------------------------------------------------------------------------
(* The control stack.                                                      *)

Top  == cs[Len(cs)]
fenv == ctx[Top.f]

SetF(F) == [ctx EXCEPT ![Top.f] = F]

\* a call pl_comp_expr_tmp(fenv, node, allow_var) whose node is not drawn yet;
\* only restricts the head of the node, d is the nesting depth of the node
Pend(f, allow_var, only, d) ==
    [h |-> "pl_comp_expr_tmp", pc |-> "dispatch", f |-> f, allow_var |-> allow_var,
     only |-> only, d |-> d]

\* a call pl_comp_expr(fenv, node, allow_var) that has not started
Wrap(f, allow_var, only, d) ==
    [h |-> "pl_comp_expr", pc |-> "enter", f |-> f, allow_var |-> allow_var,
     only |-> only, d |-> d, save |-> 0]

\* the call on top returns (tp, var)
Ret(c, tp, var) ==
    /\ ctx' = c
    /\ cs' = Front(cs)
    /\ rv' = [tp |-> tp, var |-> var]
    /\ UNCHANGED <<status, msg>>

\* the call on top raises
Raise(c, exc, m) ==
    /\ ctx' = c
    /\ status' = exc
    /\ msg' = m
    /\ UNCHANGED <<cs, rv>>

\* the call on top goes on with the frame fr and calls what is in calls
Goto(c, fr, calls) ==
    /\ ctx' = c
    /\ cs' = Front(cs) \o fr \o calls
    /\ UNCHANGED <<rv, status, msg>>

Running == status = "compiling" /\ cs # <<>>

At(h, pc) == Running /\ Top.h = h /\ Top.pc = pc

\* pl_comp_expr_tmp is about to dispatch on a node whose head is `form` and
\* which has m mandatory children
Dispatch(form) ==
    /\ Running
    /\ Top.h = "pl_comp_expr_tmp"
    /\ form \in lang
    /\ \/ Top.only = "any"
       \/ Top.only = form
       \/ Top.only = "expr" /\ form # "var"

\* m more nodes of the input program are drawn
Commit(m) ==
    /\ nodes + m <= budget
    /\ m > 0 => Top.d < MaxNest
    /\ nodes' = nodes + m
    /\ UNCHANGED <<budget, lang, ty, cpu>>

Form(form, m) == Dispatch(form) /\ Commit(m)

Same == UNCHANGED <<nodes, budget, lang, ty, cpu>>

----------------------------------------------------------------------------
(* pl_comp_expr: the statement-level wrapper.                              *)

pl_comp_expr_enter ==
    /\ At("pl_comp_expr", "enter")
    /\ Same
    /\ IF Top.allow_var /\ fenv.stack # fenv.nvar
       THEN Raise(ctx, "AssertionError", "pl_comp_expr: stack == nvar")
       ELSE Goto(ctx, <<[Top EXCEPT !.pc = "ret", !.save = fenv.stack]>>,
                 <<Pend(Top.f, Top.allow_var, Top.only, Top.d)>>)

\* pl_comp_expr that reverts to the saved height at a statement boundary too
expr_stack_saved(F, allow_var, save) == save

\* the stack height pl_comp_expr leaves
expr_stack(F, allow_var, save) == IF allow_var THEN F.nvar ELSE save

pl_comp_expr_exit ==
    /\ At("pl_comp_expr", "ret")
    /\ Same
    /\ LET F2 == [fenv EXCEPT !.stack = expr_stack(fenv, Top.allow_var, Top.save)]
       IN  IF ~(rv.var < fenv.stack)
           THEN Raise(ctx, "AssertionError", "pl_comp_expr: var < stack")
           ELSE IF ~(rv.var <= F2.stack)
           THEN Raise(SetF(F2), "AssertionError", "pl_comp_expr: var <= stack")
           ELSE Ret(SetF(F2), rv.tp, rv.var)

----------------------------------------------------------------------------
(* Leaves: names and constants.                                            *)

\* pl_comp_getvar that names the level of the reader in get_env
read_var_own_level(F, r) ==
    IF r.level = F.level THEN [F |-> F, var |-> r.var]
    ELSE [F |-> emit(tmp(F), <<"get_env", F.level, r.var, F.stack>>), var |-> F.stack]

\* pl_comp_getvar once get_var has returned r = (flevel, tp, var): [F, var]
read_var(F, r) ==
    IF r.level = F.level THEN [F |-> F, var |-> r.var]
    ELSE [F |-> emit(tmp(F), <<"get_env", r.level, r.var, F.stack>>), var |-> F.stack]

pl_comp_getvar ==
    /\ Form("name", 0)
    /\ \E name \in Names :
         LET r == get_var(ctx, Top.f, "names", name)
         IN  IF r.level < 0 THEN Raise(ctx, "ValueError", "undefined name")
             ELSE Ret(SetF(read_var(fenv, r).F), r.tp, read_var(fenv, r).var)

\* the type of a constant node by its head
const_type(head) ==
    CASE head = "val"  -> TInt
      [] head = "val8" -> TByte
      [] head = "str"  -> <<"ptr", "byte">>

pl_comp_const ==
    /\ Form("const", 0)
    /\ \E head \in {"val", "val8", "str"} \cap lang :
         Ret(SetF(emit(tmp(fenv), <<"const", IF head = "str" THEN "s" ELSE 1, fenv.stack>>)),
             const_type(head), fenv.stack)

----------------------------------------------------------------------------
(* Operators.                                                              *)

BinOps == {"+", "-", "*", "eq"}
CmpOps == {"eq", "ge", "gt", "le", "lt", "ne"}

pl_comp_binop_enter ==
    /\ Form("binop", 2)
    /\ \E op \in BinOps \cap lang :
         Goto(ctx, <<[h |-> "pl_comp_binop", pc |-> "lhs", f |-> Top.f, d |-> Top.d,
                      op |-> op, save |-> fenv.stack, t1 |-> <<>>, a1 |-> -1]>>,
              <<Pend(Top.f, FALSE, "any", Top.d + 1)>>)

pl_comp_binop_rhs ==
    /\ At("pl_comp_binop", "lhs")
    /\ Same
    /\ Goto(ctx, <<[Top EXCEPT !.pc = "rhs", !.t1 = rv.tp, !.a1 = rv.var]>>,
            <<Pend(Top.f, FALSE, "any", Top.d + 1)>>)

pl_comp_binop_exit ==
    /\ At("pl_comp_binop", "rhs")
    /\ Same
    /\ LET op   == Top.op
           swap == op = "+" /\ Top.t1[1] = "int" /\ rv.tp[1] = "ptr"
           t1   == IF swap THEN rv.tp ELSE Top.t1
           a1   == IF swap THEN rv.var ELSE Top.a1
           t2   == IF swap THEN Top.t1 ELSE rv.tp
           a2   == IF swap THEN Top.a1 ELSE rv.var
           F0   == [fenv EXCEPT !.stack = Top.save]
           dst  == F0.stack
           ints == t1 = t2 /\ t1[1] \in {"int", "byte"}
           ptr_cmp == t1 = t2 /\ t1[1] = "ptr" /\ op \in CmpOps
           scale0 == IF t1 = <<"ptr", "byte">> THEN 1 ELSE 8
           scale == IF op = "-" THEN 0 - scale0 ELSE scale0
           suffix == IF t1 = t2 /\ t1 = TByte THEN "8" ELSE ""
       IN  IF op \in {"+", "-"} /\ t1[1] = "ptr" /\ t2[1] = "int"
           THEN Ret(SetF(emit(tmp(F0), <<"lea", a1, a2, scale, dst>>)), t1, dst)
           ELSE IF op = "-" /\ t1[1] = "ptr" /\ t2[1] = "ptr"
           THEN IF t1 # t2
                THEN Raise(SetF(F0), "ValueError", "comparison of different pointer types")
                ELSE IF t1 # <<"ptr", "byte">>
                THEN Raise(SetF(F0), "NotImplementedError", "")
                ELSE Ret(SetF(emit(tmp(F0), <<"binop", "-", a1, a2, dst>>)), TInt, dst)
           ELSE IF ~(ints \/ ptr_cmp)
           THEN Raise(SetF(F0), "ValueError", "bad binop types")
           ELSE Ret(SetF(emit(tmp(F0), <<IF suffix = "8" THEN "binop8" ELSE "binop",
                                          op, a1, a2, dst>>)),
                    IF op \in CmpOps THEN TInt ELSE t1, dst)

pl_comp_unop_enter ==
    /\ Form("unop", 1)
    /\ \E op \in {"-", "not"} :
         Goto(ctx, <<[h |-> "pl_comp_unop", pc |-> "arg", f |-> Top.f, d |-> Top.d,
                      op |-> op]>>,
              <<Wrap(Top.f, FALSE, "any", Top.d + 1)>>)

pl_comp_unop_exit ==
    /\ At("pl_comp_unop", "arg")
    /\ Same
    /\ LET t1 == rv.tp
           a1 == rv.var
           dst == fenv.stack
       IN  IF Top.op = "-" /\ t1[1] \notin {"int", "byte"}
           THEN Raise(ctx, "ValueError", "bad unop types")
           ELSE IF Top.op = "not" /\ t1[1] \notin {"int", "byte", "ptr"}
           THEN Raise(ctx, "ValueError", "bad unop types")
           ELSE Ret(SetF(emit(tmp(fenv),
                              <<IF Top.op = "-" /\ t1 = TByte THEN "unop8" ELSE "unop",
                                Top.op, a1, dst>>)),
                    IF Top.op = "not" THEN TInt ELSE t1, dst)

----------------------------------------------------------------------------
(* Function definitions: pl_scan_func and pl_comp_func.                    *)

SeqsUpTo(S, k) == UNION {[1..n -> S] : n \in 0..k}

\* the types a program gives to functions and to their parameters
RTypes == {TVoid, TInt}
ParamTypes == {TInt}

\* a node (def (name rtype) ((arg type) ...) body), without its body
Defs == [name : FuncNames, rtype : RTypes, args : SeqsUpTo(Names \X ParamTypes, MaxArgs)]

Min(S) == CHOOSE x \in S : \A y \in S : x <= y

\* pl_scan_func(c[f], def): [c |-> the contexts after it, msg |-> the ValueError or ""]
pl_scan_func(c, f, def) ==
    LET rtype == validate_type(def.rtype)
        arg_type_list == [i \in 1..Len(def.args) |-> validate_type(def.args[i][2])]
        bad == {i \in 1..Len(def.args) : arg_type_list[i][1] = "!"}
        key == <<def.name, arg_type_list>>
        sc  == Len(c[f].scope)
    IN  IF rtype[1] = "!" THEN [c |-> c, msg |-> rtype[2]]
        ELSE IF bad # {} THEN [c |-> c, msg |-> arg_type_list[Min(bad)][2]]
        ELSE IF key \in DOMAIN c[f].scope[sc].fnames
        THEN [c |-> c, msg |-> "duplicated function"]
        ELSE [c |-> Append([c EXCEPT ![f].scope[sc].fnames =
                               [k \in DOMAIN @ \cup {key} |->
                                  IF k = key THEN [tp |-> rtype, idx |-> Len(c) - 1]
                                  ELSE @[k]]],
                           [Func(f, c[f].level) EXCEPT !.rtype = rtype]),
              msg |-> ""]

\* the pre-scan of the definitions of one group of a scope, in order;
\* funcs lists the functions made, each with its definition
RECURSIVE scan_group(_, _, _, _)
scan_group(c, f, defs, funcs) ==
    IF defs = <<>> THEN [c |-> c, msg |-> "", funcs |-> funcs]
    ELSE LET r == pl_scan_func(c, f, Head(defs))
         IN  IF r.msg # "" THEN [c |-> r.c, msg |-> r.msg, funcs |-> funcs]
             ELSE scan_group(r.c, f, Tail(defs),
                             Append(funcs, [idx |-> Len(r.c), def |-> Head(defs)]))

\* the loop of pl_comp_func over the parameters: [F, exc, msg]
RECURSIVE add_args(_, _)
add_args(F, args) ==
    IF args = <<>> THEN [F |-> F, exc |-> "", msg |-> ""]
    ELSE LET arg_type == validate_type(Head(args)[2])
             B == add_var_bind(F, Head(args)[1], arg_type)
         IN  IF arg_type[1] = "!" THEN [F |-> F, exc |-> "ValueError", msg |-> arg_type[2]]
             ELSE IF arg_type = TVoid
             THEN [F |-> F, exc |-> "ValueError", msg |-> "bad argument type"]
             ELSE IF Head(args)[1] \in DOMAIN Last(F.scope).names
             THEN [F |-> F, exc |-> "ValueError", msg |-> "duplicated name"]
             ELSE IF B.stack # B.nvar
             THEN [F |-> B, exc |-> "AssertionError", msg |-> "add_var: stack == nvar"]
             ELSE add_args(add_var_alloc(B), Tail(args))

\* a call pl_comp_func(ctx[f], node) that has not started
FuncFrame(f, args, only) ==
    [h |-> "pl_comp_func", pc |-> "enter", f |-> f, args |-> args, only |-> only, d |-> 0]

pl_comp_main ==
    /\ At("pl_comp_main", "enter")
    /\ Same
    /\ LET r == pl_scan_func(ctx, 1, [name |-> "main", rtype |-> TInt, args |-> <<>>])
       IN  Goto(r.c, <<FuncFrame(Len(r.c), <<>>, "do")>>, <<>>)

pl_comp_func_enter ==
    /\ At("pl_comp_func", "enter")
    /\ Same
    /\ LET r == add_args(fenv, Top.args)
       IN  IF r.exc # "" THEN Raise(SetF(r.F), r.exc, r.msg)
           ELSE IF r.F.stack # Len(Top.args)
           THEN Raise(SetF(r.F), "AssertionError", "pl_comp_func: stack == len(args)")
           ELSE Goto(SetF(r.F), <<[Top EXCEPT !.pc = "body"]>>,
                     <<Wrap(Top.f, FALSE, Top.only, 0)>>)

pl_comp_func_exit ==
    /\ At("pl_comp_func", "body")
    /\ Same
    /\ LET body_type == rv.tp
           var == IF fenv.rtype = TVoid THEN -1 ELSE rv.var
           c   == SetF(emit(fenv, <<"ret", var>>))
       IN  IF fenv.rtype # TVoid /\ fenv.rtype # body_type
           THEN Raise(ctx, "ValueError", "bad body type")
           ELSE IF Len(cs) = 1
           THEN /\ ctx' = c
                /\ cs' = <<>>
                /\ rv' = [tp |-> TVoid, var |-> -1]
                /\ status' = "compiled"
                /\ msg' = msg
           ELSE Ret(c, TVoid, -1)

----------------------------------------------------------------------------
(* Scopes and variable declarations.                                       *)

\* the definitions a group of a scope may hold, given the nodes and functions left
GroupDefs(d) ==
    IF "def" \notin lang \/ d >= MaxNest THEN {<<>>}
    ELSE {ds \in SeqsUpTo({def \in Defs : "param" \in lang \/ def.args = <<>>}, MaxFuncs - (Len(ctx) - 1)) : nodes + 2 * Len(ds) <= budget}

\* a group of the scope on top starts: its definitions are pre-scanned
StartGroup(c, fr) ==
    \E defs \in GroupDefs(fr.d) :
      /\ nodes' = nodes + 2 * Len(defs)
      /\ UNCHANGED <<budget, lang, ty, cpu>>
      /\ LET r == scan_group(c, Top.f, defs, <<>>)
         IN  IF r.msg # "" THEN Raise(r.c, "ValueError", r.msg)
             ELSE Goto(r.c, <<[fr EXCEPT !.pc = "kids", !.funcs = r.funcs]>>, <<>>)

\* the split of the kids into groups reads kid[0] of every kid: a kid that is the
\* empty list () ends the compilation with an IndexError
pl_comp_scope_enter ==
    /\ Dispatch("do")
    /\ \/ StartGroup(SetF(scope_enter(fenv)),
                     [h |-> "pl_comp_scope", pc |-> "kids", f |-> Top.f, d |-> Top.d,
                      n |-> 0, funcs |-> <<>>])
       \/ /\ "unknown" \in lang
          /\ Commit(1)
          /\ Raise(SetF(scope_enter(fenv)), "IndexError", "list index out of range")

\* the next kid is a definition of the group
pl_comp_scope_def ==
    /\ At("pl_comp_scope", "kids")
    /\ Top.funcs # <<>>
    /\ Same
    /\ Goto(ctx, <<[Top EXCEPT !.funcs = Tail(@), !.n = @ + 1]>>,
            <<FuncFrame(Head(Top.funcs).idx, Head(Top.funcs).def.args, "any")>>)

\* the next kid is neither a definition nor a declaration
pl_comp_scope_kid ==
    /\ At("pl_comp_scope", "kids")
    /\ Commit(1)
    /\ Goto(ctx, <<[Top EXCEPT !.n = @ + 1]>>, <<Wrap(Top.f, TRUE, "expr", Top.d + 1)>>)

\* the next kid is (var name init): it ends the group
pl_comp_scope_var ==
    /\ At("pl_comp_scope", "kids")
    /\ Top.funcs = <<>>
    /\ "var" \in lang
    /\ nodes + 2 <= budget
    /\ Top.d + 1 < MaxNest
    /\ Commit(1)
    /\ Goto(ctx, <<[Top EXCEPT !.n = @ + 1, !.pc = "group"]>>,
            <<Wrap(Top.f, TRUE, "var", Top.d + 1)>>)

pl_comp_scope_group ==
    /\ At("pl_comp_scope", "group")
    /\ StartGroup(ctx, Top)

pl_comp_scope_exit ==
    /\ At("pl_comp_scope", "kids")
    /\ Top.funcs = <<>>
    /\ Same
    /\ LET tp  == IF Top.n = 0 THEN TVoid ELSE rv.tp
           var == IF Top.n = 0 THEN -1 ELSE rv.var
           F1  == scope_leave(fenv)
       IN  IF var >= F1.stack
           THEN Ret(SetF(move_to(tmp(F1), var, F1.stack)), tp, F1.stack)
           ELSE Ret(SetF(F1), tp, var)

pl_comp_newvar_enter ==
    /\ Form("var", 1)
    /\ IF ~Top.allow_var
       THEN Raise(ctx, "ValueError", "variable declaration not allowed here")
       ELSE \E name \in Names :
              Goto(ctx, <<[h |-> "pl_comp_newvar", pc |-> "init", f |-> Top.f, d |-> Top.d,
                           name |-> name]>>,
                   <<Wrap(Top.f, FALSE, "any", Top.d + 1)>>)

pl_comp_newvar_exit ==
    /\ At("pl_comp_newvar", "init")
    /\ Same
    /\ LET tp  == rv.tp
           var == rv.var
           B   == add_var_bind(fenv, Top.name, tp)
           dst == B.stack
       IN  IF var < 0 THEN Raise(ctx, "ValueError", "bad variable init type")
           ELSE IF Top.name \in DOMAIN Last(fenv.scope).names
           THEN Raise(ctx, "ValueError", "duplicated name")
           ELSE IF B.stack # B.nvar
           THEN Raise(SetF(B), "AssertionError", "add_var: stack == nvar")
           ELSE Ret(SetF(move_to(add_var_alloc(B), var, dst)), tp, dst)

pl_comp_setvar_enter ==
    /\ Form("set", 1)
    /\ \E name \in Names :
         LET r == get_var(ctx, Top.f, "names", name)
         IN  IF r.level < 0 THEN Raise(ctx, "ValueError", "undefined name")
             ELSE Goto(ctx, <<[h |-> "pl_comp_setvar", pc |-> "kid", f |-> Top.f, d |-> Top.d,
                               flevel |-> r.level, dst_tp |-> r.tp, dst |-> r.var,
                               name |-> name]>>,
                       <<Wrap(Top.f, FALSE, "any", Top.d + 1)>>)

\* the end of pl_comp_setvar, the kid being in slot var: [F, var]
write_var(F, flevel, dst, var) ==
    IF flevel = F.level
    THEN [F |-> move_to(F, var, dst), var |-> dst]
    ELSE [F |-> move_to(tmp(emit(F, <<"set_env", flevel, dst, var>>)), var, F.stack),
          var |-> F.stack]

pl_comp_setvar_exit ==
    /\ At("pl_comp_setvar", "kid")
    /\ Same
    /\ LET tp  == rv.tp
           var == rv.var
       IN  IF Top.dst_tp # tp THEN Raise(ctx, "ValueError", "bad variable set type")
           ELSE Ret(SetF(write_var(fenv, Top.flevel, Top.dst, var).F), Top.dst_tp,
                    write_var(fenv, Top.flevel, Top.dst, var).var)

----------------------------------------------------------------------------
(* Control flow: conditionals, loops, break and continue.                  *)

pl_comp_cond_enter ==
    /\ Dispatch("if")
    /\ \E no \in BOOLEAN :
         /\ Commit(IF no THEN 3 ELSE 2)
         /\ LET l_true  == Len(fenv.labels)
                l_false == Len(fenv.labels) + 1
            IN  Goto(SetF(scope_enter(new_label(new_label(fenv)))),
                     <<[h |-> "pl_comp_cond", pc |-> "cond", f |-> Top.f, d |-> Top.d,
                        no |-> no, l_true |-> l_true, l_false |-> l_false,
                        t1 |-> TVoid, a1 |-> -1, dst1 |-> -1]>>,
                     <<Wrap(Top.f, TRUE, "any", Top.d + 1)>>)

pl_comp_cond_yes ==
    /\ At("pl_comp_cond", "cond")
    /\ Same
    /\ IF rv.tp = TVoid THEN Raise(ctx, "ValueError", "expect boolean condition")
       ELSE Goto(SetF(emit(fenv, <<"jmpf", rv.var, Top.l_false>>)),
                 <<[Top EXCEPT !.pc = "yes"]>>,
                 <<Wrap(Top.f, FALSE, "any", Top.d + 1)>>)

\* the end of pl_comp_cond, from set_label(l_true) on
cond_result(F, l_true, t1, a1, t2, a2) ==
    LET F1 == scope_leave(set_label(F, l_true))
    IN  IF a1 < 0 \/ a2 < 0 \/ t1 # t2
        THEN [F |-> F1, tp |-> TVoid, var |-> -1]
        ELSE [F |-> tmp(F1), tp |-> t1, var |-> F1.stack]

pl_comp_cond_no ==
    /\ At("pl_comp_cond", "yes")
    /\ Same
    /\ LET t1 == rv.tp
           a1 == rv.var
           F1 == IF a1 >= 0 THEN move_to(fenv, a1, fenv.stack) ELSE fenv
           F2 == IF Top.no THEN emit(F1, <<"jmp", Top.l_true>>) ELSE F1
           F3 == set_label(F2, Top.l_false)
           r  == cond_result(F3, Top.l_true, t1, a1, TVoid, -1)
       IN  IF Top.no
           THEN Goto(SetF(F3), <<[Top EXCEPT !.pc = "no", !.t1 = t1, !.a1 = a1,
                                             !.dst1 = fenv.stack]>>,
                     <<Wrap(Top.f, FALSE, "any", Top.d + 1)>>)
           ELSE Ret(SetF(r.F), r.tp, r.var)

pl_comp_cond_exit ==
    /\ At("pl_comp_cond", "no")
    /\ Same
    /\ LET t2 == rv.tp
           a2 == rv.var
           F1 == IF a2 >= 0 THEN move_to(fenv, a2, fenv.stack) ELSE fenv
           r  == cond_result(F1, Top.l_true, Top.t1, Top.a1, t2, a2)
       IN  Ret(SetF(r.F), r.tp, r.var)

\* fenv.scope.loop_start = ..., fenv.scope.loop_end = ... on the current scope
set_loop(F, l_start, l_end) ==
    [F EXCEPT !.scope[Len(F.scope)].loop_start = l_start,
              !.scope[Len(F.scope)].loop_end = l_end]

pl_comp_loop_enter ==
    /\ Form("loop", 2)
    /\ LET l_start == Len(fenv.labels)
           l_end   == Len(fenv.labels) + 1
           F1 == scope_enter(set_loop(new_label(new_label(fenv)), l_start, l_end))
           F2 == set_label(F1, Last(F1.scope).loop_start)
       IN  Goto(SetF(F2),
                <<[h |-> "pl_comp_loop", pc |-> "cond", f |-> Top.f, d |-> Top.d,
                   l_start |-> l_start, l_end |-> l_end]>>,
                <<Wrap(Top.f, TRUE, "any", Top.d + 1)>>)

pl_comp_loop_body ==
    /\ At("pl_comp_loop", "cond")
    /\ Same
    /\ IF rv.var < 0 THEN Raise(ctx, "ValueError", "bad condition type")
       ELSE Goto(SetF(emit(fenv, <<"jmpf", rv.var, Last(fenv.scope).loop_end>>)),
                 <<[Top EXCEPT !.pc = "body"]>>,
                 <<Wrap(Top.f, FALSE, "any", Top.d + 1)>>)

pl_comp_loop_exit ==
    /\ At("pl_comp_loop", "body")
    /\ Same
    /\ LET F1 == emit(fenv, <<"jmp", Last(fenv.scope).loop_start>>)
           F2 == set_label(F1, Last(F1.scope).loop_end)
       IN  Ret(SetF(scope_leave(F2)), TVoid, -1)

pl_comp_break ==
    /\ Form("break", 0)
    /\ IF Last(fenv.scope).loop_end < 0
       THEN Raise(ctx, "ValueError", "break outside a loop")
       ELSE Ret(SetF(emit(fenv, <<"jmp", Last(fenv.scope).loop_end>>)), SVoid, -1)

pl_comp_continue ==
    /\ Form("continue", 0)
    /\ IF Last(fenv.scope).loop_start < 0
       THEN Raise(ctx, "ValueError", "continue outside a loop")
       ELSE Ret(SetF(emit(fenv, <<"jmp", Last(fenv.scope).loop_start>>)), SVoid, -1)

----------------------------------------------------------------------------
(* Calls, system calls and return.                                         *)

\* the loop of pl_comp_call that takes the next slot and leaves the argument where
\* pl_comp_expr returned it
call_arg_unmoved(F, var) == tmp(F)

\* the body of the loop of pl_comp_call after pl_comp_expr has returned (tp, var)
call_arg(F, var) == move_to(tmp(F), var, F.stack)

\* the state of the call on top once the argument that has just returned (if any)
\* is stored
CallF     == IF Top.pend THEN call_arg(fenv, rv.var) ELSE fenv
CallTypes == IF Top.pend THEN Append(Top.arg_types, rv.tp) ELSE Top.arg_types
\* history: the length of the code when each argument was stored
CallAt    == IF Top.pend THEN Append(Top.at, Len(CallF.code)) ELSE Top.at

pl_comp_call_enter ==
    /\ Form("call", 0)
    /\ \E name \in FuncNames \cup {"main"} :
         Goto(ctx, <<[h |-> "pl_comp_call", pc |-> "args", f |-> Top.f, d |-> Top.d,
                      name |-> name, arg_types |-> <<>>, pend |-> FALSE,
                      h0 |-> fenv.stack, at |-> <<>>]>>, <<>>)

pl_comp_call_arg ==
    /\ At("pl_comp_call", "args")
    /\ Len(CallTypes) < MaxArgs
    /\ Commit(1)
    /\ Goto(SetF(CallF), <<[Top EXCEPT !.arg_types = CallTypes, !.at = CallAt,
                                    !.pend = TRUE]>>,
            <<Wrap(Top.f, FALSE, "any", Top.d + 1)>>)

pl_comp_call_exit ==
    /\ At("pl_comp_call", "args")
    /\ Same
    /\ LET F1  == [CallF EXCEPT !.stack = @ - Len(CallTypes)]
           r   == get_var(SetF(F1), Top.f, "fnames", <<Top.name, CallTypes>>)
           idx == r.var
           func == ctx[idx + 2]
           F2  == emit(F1, <<"call", idx, F1.stack, F1.level, func.level>>)
       IN  IF r.level < 0 THEN Raise(SetF(F1), "ValueError", "undefined name")
           ELSE IF func.rtype # TVoid
           THEN Ret(SetF(tmp(F2)), func.rtype, F2.stack)
           ELSE Ret(SetF(F2), func.rtype, -1)

pl_comp_syscall_enter ==
    /\ Form("syscall", 0)
    /\ \E num \in {-1, 1} :
         IF num < 0 THEN Raise(ctx, "ValueError", "bad syscall number")
         ELSE Goto(ctx, <<[h |-> "pl_comp_syscall", pc |-> "args", f |-> Top.f, d |-> Top.d,
                           num |-> num, save |-> fenv.stack, sys_vars |-> <<>>,
                           pend |-> FALSE]>>, <<>>)

\* the arguments of the syscall on top, the one that has just returned included
SysVars == IF Top.pend THEN Append(Top.sys_vars, rv.var) ELSE Top.sys_vars

pl_comp_syscall_arg ==
    /\ At("pl_comp_syscall", "args")
    /\ Len(SysVars) < MaxArgs
    /\ Commit(1)
    /\ IF Top.pend /\ rv.tp = TVoid
       THEN Raise(ctx, "ValueError", "bad syscall argument type")
       ELSE Goto(ctx, <<[Top EXCEPT !.sys_vars = SysVars, !.pend = TRUE]>>,
                 <<Pend(Top.f, FALSE, "any", Top.d + 1)>>)

pl_comp_syscall_exit ==
    /\ At("pl_comp_syscall", "args")
    /\ Same
    /\ LET F1 == [fenv EXCEPT !.stack = Top.save]
       IN  IF Top.pend /\ rv.tp = TVoid
           THEN Raise(ctx, "ValueError", "bad syscall argument type")
           ELSE Ret(SetF(tmp(emit(F1, <<"syscall", F1.stack, Top.num>> \o SysVars))),
                    TInt, F1.stack)

pl_comp_return_enter ==
    /\ Dispatch("return")
    /\ \E kid \in BOOLEAN :
         /\ Commit(IF kid THEN 1 ELSE 0)
         /\ IF kid
            THEN Goto(ctx, <<[h |-> "pl_comp_return", pc |-> "kid", f |-> Top.f,
                              d |-> Top.d]>>,
                      <<Pend(Top.f, FALSE, "any", Top.d + 1)>>)
            ELSE IF TVoid # fenv.rtype THEN Raise(ctx, "ValueError", "bad return type")
            ELSE Ret(SetF(emit(fenv, <<"ret", -1>>)), TVoid, -1)

pl_comp_return_exit ==
    /\ At("pl_comp_return", "kid")
    /\ Same
    /\ IF rv.tp # fenv.rtype THEN Raise(ctx, "ValueError", "bad return type")
       ELSE Ret(SetF(emit(fenv, <<"ret", rv.var>>)), rv.tp, rv.var)

----------------------------------------------------------------------------
(* Pointers and casts.                                                     *)

\* the type expressions a program writes in (ptr T) and (cast T e)
PtrNodes == {<<"ptr", "int">>, <<"ptr", "byte">>, <<"ptr", "void">>}
CastTypes == {<<"int">>, <<"byte">>, <<"ptr", "int">>, <<"ptr", "byte">>}

pl_comp_ptr ==
    /\ Form("ptr", 0)
    /\ \E node \in PtrNodes :
         LET tp == validate_type(node)
         IN  IF tp[1] = "!" THEN Raise(ctx, "ValueError", tp[2])
             ELSE Ret(SetF(emit(tmp(fenv), <<"const", 0, fenv.stack>>)), tp, fenv.stack)

\* the casts that need no instruction: (to, from)
free == {<<"int", "ptr">>, <<"ptr", "int">>, <<"ptr", "ptr">>,
         <<"int", "byte">>, <<"int", "int">>, <<"byte", "byte">>}

pl_comp_cast_enter ==
    /\ Form("cast", 1)
    /\ \E t \in CastTypes :
         LET tp == validate_type(t)
         IN  IF tp[1] = "!" THEN Raise(ctx, "ValueError", tp[2])
             ELSE Goto(ctx, <<[h |-> "pl_comp_cast", pc |-> "value", f |-> Top.f,
                               d |-> Top.d, tp |-> tp]>>,
                       <<Pend(Top.f, FALSE, "any", Top.d + 1)>>)

pl_comp_cast_exit ==
    /\ At("pl_comp_cast", "value")
    /\ Same
    /\ LET val_tp == rv.tp
           var == rv.var
       IN  IF <<Top.tp[1], val_tp[1]>> \in free THEN Ret(ctx, Top.tp, var)
           ELSE IF <<Top.tp[1], val_tp[1]>> = <<"byte", "int">>
           THEN Ret(SetF(emit(fenv, <<"cast8", var>>)), Top.tp, var)
           ELSE Raise(ctx, "ValueError", "bad cast")

pl_comp_peek_enter ==
    /\ Form("peek", 1)
    /\ Goto(ctx, <<[h |-> "pl_comp_peek", pc |-> "ptr", f |-> Top.f, d |-> Top.d]>>,
            <<Wrap(Top.f, FALSE, "any", Top.d + 1)>>)

pl_comp_peek_exit ==
    /\ At("pl_comp_peek", "ptr")
    /\ Same
    /\ LET head == rv.tp[1]
           tail == Tail2(rv.tp)
       IN  IF head # "ptr" THEN Raise(ctx, "ValueError", "not a pointer")
           ELSE Ret(SetF(tmp(emit(fenv, <<IF tail = TByte THEN "peek8" ELSE "peek",
                                           rv.var, fenv.stack>>))),
                    tail, fenv.stack)

pl_comp_poke_enter ==
    /\ Form("poke", 2)
    /\ Goto(ctx, <<[h |-> "pl_comp_poke", pc |-> "value", f |-> Top.f, d |-> Top.d,
                    save |-> fenv.stack, t2 |-> <<>>, var_val |-> -1]>>,
            <<Pend(Top.f, FALSE, "any", Top.d + 1)>>)

pl_comp_poke_ptr ==
    /\ At("pl_comp_poke", "value")
    /\ Same
    /\ Goto(ctx, <<[Top EXCEPT !.pc = "ptr", !.t2 = rv.tp, !.var_val = rv.var]>>,
            <<Pend(Top.f, FALSE, "any", Top.d + 1)>>)

pl_comp_poke_exit ==
    /\ At("pl_comp_poke", "ptr")
    /\ Same
    /\ LET t1 == rv.tp
           var_ptr == rv.var
           F1 == [fenv EXCEPT !.stack = Top.save]
           F2 == emit(F1, <<IF Top.t2 = TByte THEN "poke8" ELSE "poke", var_ptr, Top.var_val>>)
       IN  IF t1 # <<"ptr">> \o Top.t2 THEN Raise(ctx, "ValueError", "pointer type mismatch")
           ELSE Ret(SetF(move_to(tmp(F2), Top.var_val, F2.stack)), Top.t2, F2.stack)

pl_comp_ref ==
    /\ Form("ref", 0)
    /\ \E name \in Names :
         LET r == get_var(ctx, Top.f, "names", name)
             dst == fenv.stack
         IN  IF r.level < 0 THEN Raise(ctx, "ValueError", "undefined name")
             ELSE IF r.level = fenv.level
             THEN Ret(SetF(emit(tmp(fenv), <<"ref_var", r.var, dst>>)), <<"ptr">> \o r.tp, dst)
             ELSE Ret(SetF(emit(tmp(fenv), <<"ref_env", r.level, r.var, dst>>)),
                      <<"ptr">> \o r.tp, dst)

pl_comp_debug ==
    /\ Form("debug", 0)
    /\ Ret(SetF(emit(fenv, <<"debug">>)), TVoid, -1)

\* a node that is no form of the language
pl_comp_unknown ==
    /\ Form("unknown", 0)
    /\ \E m \in {"empty list", "unknown expression"} :
         /\ m = "empty list" => Top.only = "any"
         /\ Raise(ctx, "ValueError", m)

----------------------------------------------------------------------------
(* The specification.                                                      *)

LangAll == {"name", "const", "val", "val8", "str", "binop", "+", "-", "*", "eq", "unop",
            "do", "def", "param", "var", "set", "if", "loop", "break", "continue", "call",
            "syscall", "return", "ptr", "cast", "peek", "poke", "ref", "debug", "unknown"}

\* the control-flow forms, with integer constants
LangFlow == {"const", "val", "do", "if", "loop", "break", "continue"}

\* expressions with temporaries, scopes and locals
LangExpr == {"name", "const", "val", "binop", "+", "do", "var", "set", "if"}

\* nested functions, calls and non-local variables
LangFunc == {"name", "const", "val", "do", "def", "param", "var", "set", "call"}

\* functions without parameters nested in functions, and the variables around them
LangEnv == {"name", "const", "val", "do", "def", "var", "set"}

\* functions that return by (return e), and their calls
LangRet == {"const", "val", "do", "def", "var", "call", "return"}

\* the value of the variables of a part of the program that is not running
Idle == [pc |-> "idle"]

\* the classes of input programs: the forms they use and their size
Inputs == { [lang |-> LangAll,  budget |-> MaxNodes],
            [lang |-> LangFlow, budget |-> MaxNodesFlow],
            [lang |-> LangExpr, budget |-> MaxNodesExpr],
            [lang |-> LangFunc, budget |-> MaxNodesFunc],
            [lang |-> LangEnv,  budget |-> MaxNodesEnv],
            [lang |-> LangRet,  budget |-> MaxNodesRet] }

Init ==
    /\ ctx = <<Func(0, 0)>>
    /\ cs = <<[h |-> "pl_comp_main", pc |-> "enter", f |-> 1]>>
    /\ rv = [tp |-> TVoid, var |-> -1]
    /\ status = "compiling"
    /\ msg = ""
    /\ nodes = 1
    /\ \E in \in Inputs : budget = in.budget /\ lang = in.lang
    /\ ty = Idle
    /\ cpu = Idle

Next ==
    \/ pl_comp_main
    \/ pl_comp_func_enter
    \/ pl_comp_func_exit
    \/ pl_comp_expr_enter
    \/ pl_comp_expr_exit
    \/ pl_comp_getvar
    \/ pl_comp_const
    \/ pl_comp_binop_enter
    \/ pl_comp_binop_rhs
    \/ pl_comp_binop_exit
    \/ pl_comp_unop_enter
    \/ pl_comp_unop_exit
    \/ pl_comp_scope_enter
    \/ pl_comp_scope_def
    \/ pl_comp_scope_kid
    \/ pl_comp_scope_var
    \/ pl_comp_scope_group
    \/ pl_comp_scope_exit
    \/ pl_comp_newvar_enter
    \/ pl_comp_newvar_exit
    \/ pl_comp_setvar_enter
    \/ pl_comp_setvar_exit
    \/ pl_comp_cond_enter
    \/ pl_comp_cond_yes
    \/ pl_comp_cond_no
    \/ pl_comp_cond_exit
    \/ pl_comp_loop_enter
    \/ pl_comp_loop_body
    \/ pl_comp_loop_exit
    \/ pl_comp_break
    \/ pl_comp_continue
    \/ pl_comp_call_enter
    \/ pl_comp_call_arg
    \/ pl_comp_call_exit
    \/ pl_comp_syscall_enter
    \/ pl_comp_syscall_arg
    \/ pl_comp_syscall_exit
    \/ pl_comp_return_enter
    \/ pl_comp_return_exit
    \/ pl_comp_ptr
    \/ pl_comp_cast_enter
    \/ pl_comp_cast_exit
    \/ pl_comp_peek_enter
    \/ pl_comp_peek_exit
    \/ pl_comp_poke_enter
    \/ pl_comp_poke_ptr
    \/ pl_comp_poke_exit
    \/ pl_comp_ref
    \/ pl_comp_debug
    \/ pl_comp_unknown

Spec == Init /\ [][Next]_vars

----------------------------------------------------------------------------
(* Properties of the function contexts.                                    *)

Compiling == status = "compiling"
Compiled  == status = "compiled"
Funcs     == 2..Len(ctx)

\* C1: in every function context, after every step of the compilation of any
\* program (scope_enter, scope_leave, add_var, tmp, the handlers of pl_comp_expr),
\* stack >= nvar.
C1_StackAboveLocals ==
    \A f \in 1..Len(ctx) : ctx[f].stack >= ctx[f].nvar

\* a call with an argument has been compiled above a declared local, and its result
\* is a temporary above the locals
C1_Witness ==
    \E f \in Funcs :
      /\ ctx[f].nvar >= 1
      /\ ctx[f].stack > ctx[f].nvar
      /\ \E i \in 1..Len(ctx[f].code) : ctx[f].code[i][1] = "call"

\* C2: every pl_comp_expr(allow_var=True) that returns without error leaves
\* stack == nvar: the temporaries of a statement are drained.
C2_StatementDrained ==
    [][ (At("pl_comp_expr", "ret") /\ Top.allow_var /\ status' = "compiling")
        => ctx'[Top.f].stack = ctx'[Top.f].nvar ]_vars

\* a statement of a scope has returned a temporary that lay above a declared local
C2_Witness ==
    /\ At("pl_comp_scope", "kids")
    /\ Top.n >= 2
    /\ fenv.nvar >= 1
    /\ rv.var >= fenv.nvar
    /\ fenv.stack = fenv.nvar

\* C3: the assertions stack == nvar of pl_comp_expr(allow_var=True) and of add_var
\* never fire, whatever the program.
C3_NoStackAssertion ==
    ~(status = "AssertionError"
      /\ msg \in {"pl_comp_expr: stack == nvar", "add_var: stack == nvar"})

\* the bindings of the locals of scope i of F, as a set of <<name, slot>>
Locals(F, i) == {<<k, F.scope[i].names[k].idx>> : k \in DOMAIN F.scope[i].names}

RECURSIVE NLocalBelow(_, _)
\* the number of locals declared in the scopes outside scope i of F
NLocalBelow(F, i) == IF i <= 1 THEN 0 ELSE F.scope[i - 1].nlocal + NLocalBelow(F, i - 1)

\* the slots of the live locals of F are 0..nvar-1, each scope holding the next
\* nlocal slots after those of the scopes around it (the parameters, in the
\* function's first scope, come first)
SlotsContiguous(F) ==
    /\ \A i \in 1..Len(F.scope) :
         /\ {b[2] : b \in Locals(F, i)}
              = NLocalBelow(F, i)..(NLocalBelow(F, i) + F.scope[i].nlocal - 1)
         /\ Cardinality(DOMAIN F.scope[i].names) = F.scope[i].nlocal
    /\ NLocalBelow(F, Len(F.scope) + 1) = F.nvar

\* add_var (reached through pl_comp_newvar) returns the value nvar had
DeclaredAtNvar ==
    (At("pl_comp_newvar", "init") /\ Compiling' /\ Len(cs') < Len(cs))
        => rv'.var = fenv.nvar

\* as long as a scope is not left, the names it declares keep their slot and type
BindingsKept ==
    \A f \in 1..Len(ctx) : \A i \in 1..Len(ctx[f].scope) :
      Len(ctx'[f].scope) >= i =>
        \A k \in DOMAIN ctx[f].scope[i].names :
          /\ k \in DOMAIN ctx'[f].scope[i].names
          /\ ctx'[f].scope[i].names[k] = ctx[f].scope[i].names[k]

\* the name k declared in scope i of F resolves, from the innermost scope of F, to
\* the binding scope i holds
NameResolves(F, i, k) == scope_get_var(F.scope, "names", k) = F.scope[i].names[k]

\* a scope nested in scope i of F declares the name k again
Shadowed(F, i, k) == \E j \in (i + 1)..Len(F.scope) : k \in DOMAIN F.scope[j].names

\* C4 (as stated): add_var returns the value of nvar at the declaration; the slots
\* of the live locals are exactly 0..nvar-1, parameters first; a local's name keeps
\* resolving to that slot until its declaring scope is left.
C4_NameKeepsResolving ==
    /\ [](~Compiling \/ \A f \in 1..Len(ctx) :
            /\ SlotsContiguous(ctx[f])
            /\ \A i \in 1..Len(ctx[f].scope) : \A k \in DOMAIN ctx[f].scope[i].names :
                 NameResolves(ctx[f], i, k))
    /\ [][DeclaredAtNvar /\ (Compiling' => BindingsKept)]_vars

\* C4 (amended): add_var returns the value of nvar at the declaration; the slots of
\* the live locals are exactly 0..nvar-1, parameters first; a local keeps its slot
\* until its declaring scope is left, and its name resolves to that slot except
\* inside a nested scope that declares the same name again.
C4_SlotsOfLocals ==
    /\ [](~Compiling \/ \A f \in 1..Len(ctx) :
            /\ SlotsContiguous(ctx[f])
            /\ \A i \in 1..Len(ctx[f].scope) : \A k \in DOMAIN ctx[f].scope[i].names :
                 Shadowed(ctx[f], i, k) \/ NameResolves(ctx[f], i, k))
    /\ [][DeclaredAtNvar /\ (Compiling' => BindingsKept)]_vars

\* a function with a parameter has declared, in a scope of its body, a local of the
\* same name: the name resolves to the local, in the slot after the parameter's
C4_Witness ==
    /\ Compiling
    /\ \E f \in Funcs :
         /\ Len(ctx[f].scope) >= 2
         /\ ctx[f].nvar >= 2
         /\ \E k \in DOMAIN ctx[f].scope[1].names :
              /\ k \in DOMAIN Last(ctx[f].scope).names
              /\ NameResolves(ctx[f], Len(ctx[f].scope), k)
              /\ Last(ctx[f].scope).names[k].idx > ctx[f].scope[1].names[k].idx

\* the operand of a jump instruction: its label
Label(ins) == ins[Len(ins)]
IsJump(ins) == ins[1] \in {"jmp", "jmpf"}

\* C5: when the compilation is complete, every label of a jmp or jmpf of a function
\* was allocated by new_label of that function and bound by set_label exactly once.
C5_LabelsBoundOnce ==
    Compiled =>
      \A f \in Funcs : \A i \in 1..Len(ctx[f].code) :
        IsJump(ctx[f].code[i]) =>
          /\ Label(ctx[f].code[i]) \in 0..(Len(ctx[f].labels) - 1)
          /\ ctx[f].nset[Label(ctx[f].code[i]) + 1] = 1
          /\ ctx[f].labels[Label(ctx[f].code[i]) + 1] >= 0

\* C6: when both branches of (if c yes no) have the same non-void type, the slot
\* returned is the slot both branches stored their value into (dst1 for the then
\* branch, the stack top at the end of the else branch), the condition declaring a
\* variable or not.
C6_BranchesConverge ==
    [][ (At("pl_comp_cond", "no") /\ Compiling' /\ rv'.var >= 0)
        => (rv'.var = Top.dst1 /\ rv'.var = fenv.stack) ]_vars

\* the frames of the loops that lexically enclose the node being compiled, in the
\* function being compiled
LoopFrames ==
    {i \in 1..Len(cs) : /\ cs[i].h = "pl_comp_loop"
                        /\ \A j \in (i + 1)..Len(cs) : cs[j].h # "pl_comp_func"}

Max(S) == CHOOSE x \in S : \A y \in S : x >= y

\* C7: a break or continue that is not lexically inside a loop of its function is
\* rejected with a compile error, whatever precedes it.
C7_JumpOutsideLoopRejected ==
    [][ ((pl_comp_break \/ pl_comp_continue) /\ LoopFrames = {})
        => status' = "ValueError" ]_vars

\* C8: an accepted break (continue) jumps to the end (start) label of the innermost
\* loop that lexically encloses it.
C8_JumpToInnermostLoop ==
    [][ (LoopFrames # {} /\ Compiling') =>
          /\ pl_comp_break =>
                Last(ctx'[Top.f].code) = <<"jmp", cs[Max(LoopFrames)].l_end>>
          /\ pl_comp_continue =>
                Last(ctx'[Top.f].code) = <<"jmp", cs[Max(LoopFrames)].l_start>> ]_vars

\* C9: every expression returns (type, slot) with type a canonical type tuple and
\* slot == -1 exactly when the type is ('void',).
C9_ResultPair ==
    /\ validate_type(rv.tp) = rv.tp
    /\ rv.var = -1 <=> rv.tp = TVoid

\* the slot operands of an IR instruction
SlotOperands(ins) ==
    CASE ins[1] = "const" -> {ins[3]}
      [] ins[1] = "mov" -> {ins[2], ins[3]}
      [] ins[1] \in {"binop", "binop8"} -> {ins[3], ins[4], ins[5]}
      [] ins[1] \in {"unop", "unop8"} -> {ins[3], ins[4]}
      [] ins[1] = "jmpf" -> {ins[2]}
      [] ins[1] \in {"get_env", "set_env", "ref_env"} -> {ins[3], ins[4]}
      [] ins[1] = "ref_var" -> {ins[2], ins[3]}
      [] ins[1] = "lea" -> {ins[2], ins[3], ins[5]}
      [] ins[1] \in {"peek", "peek8", "poke", "poke8"} -> {ins[2], ins[3]}
      [] ins[1] = "cast8" -> {ins[2]}
      [] ins[1] = "syscall" -> {ins[2]} \cup {ins[k] : k \in 4..Len(ins)}
      [] ins[1] = "call" -> {ins[3]}
      [] OTHER -> {}

\* C10: in a program that compiles without error, every slot operand of every
\* instruction is nonnegative; only ret may carry -1.
C10_SlotOperandsNonnegative ==
    Compiled =>
      \A f \in Funcs : \A i \in 1..Len(ctx[f].code) :
        \A a \in SlotOperands(ctx[f].code[i]) : a >= 0


\* C11: the scope_leave that matches a scope_enter, after any error-free compilation
\* in between (nested scopes and declarations included), restores stack and nvar to
\* the values they had at the scope_enter.
C11_ScopeLeaveRestores ==
    (Compiling \/ Compiled) =>
      \A f \in 1..Len(ctx) :
        Len(ctx[f].scope) >= 2 =>
          /\ scope_leave(ctx[f]).stack = Last(ctx[f].scope).enter.stack
          /\ scope_leave(ctx[f]).nvar = Last(ctx[f].scope).enter.nvar

\* a scope that declared a local, nested in a scope that declared one before it, has
\* compiled its kids and is about to be left
C11_Witness ==
    /\ Compiling
    /\ At("pl_comp_scope", "kids")
    /\ Top.funcs = <<>>
    /\ Len(fenv.scope) >= 3
    /\ Last(fenv.scope).nlocal >= 1
    /\ Last(fenv.scope).enter.nvar >= 1
    /\ fenv.nvar > Last(fenv.scope).enter.nvar

----------------------------------------------------------------------------
(* validate_type on its own: every type expression of at most MaxTypeLen   *)
(* elements is validated, and what validate_type returns is validated      *)
(* again.                                                                  *)

\* the longest type expression tried
MaxTypeLen == 5

\* the elements of a type expression; "x" is any element that names no type
TypeWords == {"void", "int", "byte", "ptr", "x"}

\* the compiler and the machine do not run
CompilerIdle ==
    /\ ctx = <<>>
    /\ cs = <<>>
    /\ rv = [tp |-> TVoid, var |-> -1]
    /\ status = "idle"
    /\ msg = ""
    /\ nodes = 0
    /\ budget = 0
    /\ lang = {}

compiler == <<ctx, cs, rv, status, msg, nodes, budget, lang>>

InitTypes ==
    /\ CompilerIdle
    /\ cpu = Idle
    /\ \E t \in SeqsUpTo(TypeWords, MaxTypeLen) : ty = [pc |-> "in", in |-> t]

\* T = validate_type(T0)
ty_validate ==
    /\ ty.pc = "in"
    /\ ty' = [pc |-> "out", in |-> ty.in, out |-> validate_type(ty.in)]
    /\ UNCHANGED <<compiler, cpu>>

\* validate_type(T), for a T0 that was accepted
ty_revalidate ==
    /\ ty.pc = "out"
    /\ ty.out[1] # "!"
    /\ ty' = [pc |-> "again", in |-> ty.in, out |-> ty.out, again |-> validate_type(ty.out)]
    /\ UNCHANGED <<compiler, cpu>>

NextTypes == ty_validate \/ ty_revalidate

SpecTypes == InitTypes /\ [][NextTypes]_vars

\* C12: for every type expression T0 that validate_type accepts, with
\* T = validate_type(T0), validate_type(T) succeeds and returns T.
C12_ValidateIdempotent ==
    ty.pc = "again" => (ty.again[1] # "!" /\ ty.again = ty.out)

\* a pointer to a pointer has been validated twice
C12_Witness ==
    /\ ty.pc = "again"
    /\ Len(ty.out) >= 3
    /\ ty.out[1] = "ptr"

----------------------------------------------------------------------------
(* Properties of calls.                                                    *)

\* the slot an IR instruction writes, -1 when it writes none
Dest(ins) ==
    CASE ins[1] \in {"const", "mov", "ref_var", "call"} -> ins[3]
      [] ins[1] \in {"binop", "binop8", "lea"} -> ins[5]
      [] ins[1] \in {"unop", "unop8", "get_env", "ref_env"} -> ins[4]
      [] ins[1] \in {"peek", "peek8"} -> ins[3]
      [] ins[1] \in {"cast8", "syscall"} -> ins[2]
      [] OTHER -> -1

\* the argument that has just been compiled is put in the next slot after the
\* arguments before it: it was returned there, or the mov emitted last copies it
ArgStored ==
    LET i == Len(Top.arg_types)
    IN  /\ CallF.stack = Top.h0 + i + 1
        /\ \/ rv.var = Top.h0 + i /\ CallF.code = fenv.code
           \/ /\ rv.var # Top.h0 + i
              /\ CallF.code = Append(fenv.code, <<"mov", rv.var, Top.h0 + i>>)

\* nothing emitted after an argument was stored writes the slot of that argument
ArgsKept ==
    \A j \in 1..Len(CallAt) : \A k \in (CallAt[j] + 1)..Len(CallF.code) :
      Dest(CallF.code[k]) # Top.h0 + j - 1

\* the call instruction has arg_start = h, and the stack is left at h for a void
\* callee, at h + 1 with the result in slot h otherwise
CallEmitted ==
    LET F   == ctx'[Top.f]
        ins == Last(F.code)
    IN  /\ ins[1] = "call"
        /\ ins[3] = Top.h0
        /\ rv'.tp = ctx[ins[2] + 2].rtype
        /\ IF ctx[ins[2] + 2].rtype = TVoid
           THEN F.stack = Top.h0 /\ rv'.var = -1
           ELSE F.stack = Top.h0 + 1 /\ rv'.var = Top.h0

----------------------------------------------------------------------------
(* Properties of the access to variables.                                  *)

\* the function that owns the variable `name` seen from function f of c: the nearest
\* function, from f outwards, with a scope that declares it; 0 when there is none
RECURSIVE OwnerOf(_, _, _)
OwnerOf(c, f, name) ==
    IF f = 0 THEN 0
    ELSE IF \E i \in 1..Len(c[f].scope) : name \in DOMAIN c[f].scope[i].names THEN f
    ELSE OwnerOf(c, c[f].prev, name)

\* the slot `name` has in the frame of its owner F: the one its innermost
\* declaration was given
SlotIn(F, name) ==
    F.scope[Max({i \in 1..Len(F.scope) : name \in DOMAIN F.scope[i].names})].names[name].idx

\* reading a name: the slot itself and no instruction when the current function
\* owns it, get_env (owner's level) (owner's slot) tmp otherwise
ReadsByOwner ==
    Dispatch("name") =>
      \A name \in Names :
        LET o == OwnerOf(ctx, Top.f, name)
            R == read_var(fenv, get_var(ctx, Top.f, "names", name))
        IN  o # 0 =>
              /\ (o = Top.f) <=> (ctx[o].level = fenv.level)
              /\ IF o = Top.f
                 THEN R.F = fenv /\ R.var = SlotIn(fenv, name)
                 ELSE /\ R.F.code = Append(fenv.code, <<"get_env", ctx[o].level,
                                                        SlotIn(ctx[o], name), fenv.stack>>)
                      /\ R.F.stack = fenv.stack + 1
                      /\ R.var = fenv.stack

\* assigning a name: a mov into the slot (nothing when the value is already in it)
\* when the current function owns it, set_env (owner's level) (owner's slot) src
\* otherwise
WritesByOwner ==
    (At("pl_comp_setvar", "kid") /\ rv.tp = Top.dst_tp) =>
      LET o == OwnerOf(ctx, Top.f, Top.name)
          W == write_var(fenv, Top.flevel, Top.dst, rv.var)
      IN  /\ o # 0
          /\ (o = Top.f) <=> (ctx[o].level = fenv.level)
          /\ IF o = Top.f
             THEN /\ W.F.code = IF rv.var = SlotIn(fenv, Top.name) THEN fenv.code
                                ELSE Append(fenv.code, <<"mov", rv.var, SlotIn(fenv, Top.name)>>)
                  /\ W.var = SlotIn(fenv, Top.name)
             ELSE /\ Len(W.F.code) > Len(fenv.code)
                  /\ SubSeq(W.F.code, 1, Len(fenv.code) + 1)
                       = Append(fenv.code, <<"set_env", ctx[o].level,
                                              SlotIn(ctx[o], Top.name), rv.var>>)

\* C14: a name owned by the current function is read by returning its slot with no
\* instruction and assigned with mov; a name owned by an enclosing function of level
\* L at slot s is read by get_env L s tmp and assigned by set_env L s src; the env
\* instructions are used exactly when the owner's level differs from the current one.
C14_AccessByOwner ==
    ReadsByOwner /\ WritesByOwner

\* a function of level 3 has read a variable with get_env and is about to assign a
\* variable of main, which is not its parent
C14_Witness ==
    /\ At("pl_comp_setvar", "kid")
    /\ rv.tp = Top.dst_tp
    /\ fenv.level = 3
    /\ OwnerOf(ctx, Top.f, Top.name) = 2
    /\ fenv.code # <<>>
    /\ Last(fenv.code)[1] = "get_env"

----------------------------------------------------------------------------
(* pl_comp_scope on a given list of kids: the body of main is                *)
(* (do kid ...), every kid being a function definition                     *)
(* (def (name int) () body) with body 0 or (call other), a declaration     *)
(* (var name 0), or a statement (call name).                               *)

\* the longest list of kids tried
MaxKids == 4

ScopeFuncNames == {"f", "g"}

Kids ==
    [kind : {"def"}, name : ScopeFuncNames, calls : ScopeFuncNames \cup {""}]
      \cup [kind : {"var"}, name : Names, calls : {""}]
      \cup [kind : {"call"}, name : ScopeFuncNames, calls : {""}]

\* the split of pl_comp_scope that does not end a group at a declaration
scope_groups_unsplit(node) == <<[i \in 1..Len(node) |-> i]>>

RECURSIVE scope_groups(_)
\* the split of the kids into groups: the positions of the kids of each group, a
\* var kid being the last of its group
scope_groups(node) ==
    IF node = <<>> THEN << <<>> >>
    ELSE LET gs == scope_groups(Front(node))
             g1 == [gs EXCEPT ![Len(gs)] = Append(@, Len(node))]
         IN  IF Last(node).kind = "var" THEN Append(g1, <<>>) ELSE g1

\* (call name) compiled in function fi of c: pl_comp_call without arguments
call_by_name(c, fi, name) ==
    LET r == get_var(c, fi, "fnames", <<name, <<>>>>)
        F == c[fi]
    IN  IF r.level < 0 THEN [ok |-> FALSE, c |-> c]
        ELSE [ok |-> TRUE,
              c  |-> [c EXCEPT ![fi] = tmp(emit(F, <<"call", r.var, F.stack, F.level,
                                                     c[r.var + 2].level>>))]]

\* main is scanned, its context made, and pl_comp_scope has entered the scope of
\* its body
InitScope ==
    /\ ty = Idle
    /\ cpu = Idle
    /\ rv = [tp |-> TVoid, var |-> -1]
    /\ status = "compiling"
    /\ msg = ""
    /\ nodes = 0
    /\ budget = 0
    /\ lang = {}
    /\ LET c == pl_scan_func(<<Func(0, 0)>>, 1, [name |-> "main", rtype |-> TInt, args |-> <<>>]).c
       IN  ctx = [c EXCEPT ![2] = scope_enter(@)]
    /\ \E node \in SeqsUpTo(Kids, MaxKids) :
         cs = <<[h |-> "pl_comp_scope", pc |-> "split", f |-> 2, node |-> node,
                 groups |-> <<>>, g |-> 0, k |-> 0, funcs |-> <<>>]>>

InScope(pc) == status = "compiling" /\ cs # <<>> /\ Top.pc = pc

\* the kid about to be compiled
Kid == Top.node[Top.groups[Top.g][Top.k]]

scope_rest == UNCHANGED <<nodes, budget, lang, ty, cpu>>

\* groups = [[]] ... for kid in node[1:]
scope_split ==
    /\ InScope("split")
    /\ scope_rest
    /\ Goto(ctx, <<[Top EXCEPT !.groups = scope_groups(Top.node), !.g = 1, !.pc = "scan"]>>,
            <<>>)

\* funcs = [pl_scan_func(fenv, kid) for kid in g if kid[0] == 'def' ...]
scope_scan ==
    /\ InScope("scan")
    /\ scope_rest
    /\ LET g    == Top.groups[Top.g]
           at   == {i \in 1..Len(g) : Top.node[g[i]].kind = "def"}
           defs == [j \in 1..Cardinality(at) |->
                      LET i == CHOOSE i \in at : Cardinality({x \in at : x < i}) = j - 1
                      IN  [name |-> Top.node[g[i]].name, rtype |-> TInt, args |-> <<>>]]
           r    == scan_group(ctx, Top.f, defs, <<>>)
       IN  IF r.msg # "" THEN Raise(r.c, "ValueError", r.msg)
           ELSE Goto(r.c, <<[Top EXCEPT !.funcs = r.funcs, !.k = 1, !.pc = "kid"]>>, <<>>)

\* the kid is compiled: the frame moves to the next kid, (tp, var) is its result
KidDone(c, fr, tp, var) ==
    /\ ctx' = c
    /\ cs' = <<fr>>
    /\ rv' = [tp |-> tp, var |-> var]
    /\ UNCHANGED <<status, msg>>

\* target, *funcs = funcs; pl_comp_func(target, kid)
scope_kid_def ==
    /\ InScope("kid")
    /\ Top.k <= Len(Top.groups[Top.g])
    /\ Kid.kind = "def"
    /\ scope_rest
    /\ LET fi == Head(Top.funcs).idx
           F  == ctx[fi]
           r  == IF Kid.calls = ""
                 THEN [ok |-> TRUE, c |-> [ctx EXCEPT ![fi] = tmp(emit(F, <<"const", 0, F.stack>>))]]
                 ELSE call_by_name(ctx, fi, Kid.calls)
           F2 == [r.c[fi] EXCEPT !.stack = expr_stack(r.c[fi], FALSE, F.stack)]
       IN  IF ~r.ok THEN Raise(ctx, "ValueError", "undefined name")
           ELSE KidDone([r.c EXCEPT ![fi] = emit(F2, <<"ret", F.stack>>)],
                        [Top EXCEPT !.k = @ + 1, !.funcs = Tail(@)], TVoid, -1)

\* pl_comp_expr(fenv, kid, allow_var=True) for a kid (call name)
scope_kid_call ==
    /\ InScope("kid")
    /\ Top.k <= Len(Top.groups[Top.g])
    /\ Kid.kind = "call"
    /\ scope_rest
    /\ LET r  == call_by_name(ctx, Top.f, Kid.name)
           F2 == [r.c[Top.f] EXCEPT !.stack = expr_stack(r.c[Top.f], TRUE, fenv.stack)]
       IN  IF ~r.ok THEN Raise(ctx, "ValueError", "undefined name")
           ELSE KidDone([r.c EXCEPT ![Top.f] = F2], [Top EXCEPT !.k = @ + 1], TInt, fenv.stack)

\* pl_comp_expr(fenv, kid, allow_var=True) for a kid (var name 0)
scope_kid_var ==
    /\ InScope("kid")
    /\ Top.k <= Len(Top.groups[Top.g])
    /\ Kid.kind = "var"
    /\ scope_rest
    /\ LET F1 == emit(fenv, <<"const", 0, fenv.stack>>)
           F2 == add_var(F1, Kid.name, TInt)
       IN  IF Kid.name \in DOMAIN Last(fenv.scope).names
           THEN Raise(SetF(F1), "ValueError", "duplicated name")
           ELSE KidDone(SetF([F2 EXCEPT !.stack = expr_stack(F2, TRUE, fenv.stack)]),
                        [Top EXCEPT !.k = @ + 1], TInt, fenv.stack)

\* for g in groups: the next group
scope_next_group ==
    /\ InScope("kid")
    /\ Top.k > Len(Top.groups[Top.g])
    /\ Top.g < Len(Top.groups)
    /\ scope_rest
    /\ Goto(ctx, <<[Top EXCEPT !.g = @ + 1, !.pc = "scan"]>>, <<>>)

\* fenv.scope_leave() after the last group, the result moved to a temporary,
\* and the implicit return of main
scope_end ==
    /\ InScope("kid")
    /\ Top.k > Len(Top.groups[Top.g])
    /\ Top.g = Len(Top.groups)
    /\ scope_rest
    /\ LET F1 == scope_leave(fenv)
           F2 == IF rv.var >= F1.stack THEN move_to(tmp(F1), rv.var, F1.stack) ELSE F1
           var == IF rv.var >= F1.stack THEN F1.stack ELSE rv.var
       IN  IF fenv.rtype # rv.tp
           THEN Raise(SetF(F2), "ValueError", "bad body type")
           ELSE /\ ctx' = SetF(emit([F2 EXCEPT !.stack = expr_stack(F2, FALSE, 0)], <<"ret", var>>))
                /\ cs' = <<>>
                /\ rv' = [tp |-> TVoid, var |-> -1]
                /\ status' = "compiled"
                /\ msg' = msg

NextScope ==
    \/ scope_split
    \/ scope_scan
    \/ scope_kid_def
    \/ scope_kid_call
    \/ scope_kid_var
    \/ scope_next_group
    \/ scope_end

SpecScope == InitScope /\ [][NextScope]_vars

----------------------------------------------------------------------------
(* The groups of a scope, counted on the list of kids itself.               *)

\* the group of kid j: one more than the declarations before it
GroupOf(node, j) == 1 + Cardinality({i \in 1..(j - 1) : node[i].kind = "var"})

\* the def kids of the groups up to G
DefsUpTo(node, G) == {j \in 1..Len(node) : node[j].kind = "def" /\ GroupOf(node, j) <= G}

\* the def kids of the groups after G
DefsAfter(node, G) == {j \in 1..Len(node) : node[j].kind = "def" /\ GroupOf(node, j) > G}

\* a kid of the scope is about to be compiled
KidTurn == InScope("kid") /\ Top.k <= Len(Top.groups[Top.g])

KidAt == Top.groups[Top.g][Top.k]

\* the function names bound in the scope of the kids
BoundHere == {n \in ScopeFuncNames : <<n, <<>>>> \in DOMAIN Last(ctx[Top.f].scope).fnames}

\* the name the kid about to be compiled calls, "" if it calls none
Callee == IF Kid.kind = "call" THEN Kid.name ELSE Kid.calls

\* the signatures bound are those of the def kids up to the group of the kid
\* compiled, and only these have their Func
GroupsBound ==
    KidTurn =>
        LET G == GroupOf(Top.node, KidAt)
        IN  /\ BoundHere = {Top.node[j].name : j \in DefsUpTo(Top.node, G)}
            /\ Len(ctx) - 2 = Cardinality(DefsUpTo(Top.node, G))

\* a call of a function defined up to the group of the caller is compiled
CallInGroup ==
    (KidTurn /\ Callee \in {Top.node[j].name : j \in DefsUpTo(Top.node, GroupOf(Top.node, KidAt))})
        => (status' = "compiling" /\ \E f \in 1..Len(ctx') :
              Len(ctx'[f].code) > Len(ctx[f].code)
                /\ \E i \in 1..Len(ctx'[f].code) : ctx'[f].code[i][1] = "call")

\* a call of a function defined only after a later declaration is refused
CallAcrossVar ==
    (KidTurn /\ Callee \in {Top.node[j].name : j \in DefsAfter(Top.node, GroupOf(Top.node, KidAt))}
             /\ Callee \notin {Top.node[j].name : j \in DefsUpTo(Top.node, GroupOf(Top.node, KidAt))})
        => (status' = "ValueError" /\ msg' = "undefined name")

\* C15: when a kid of a scope is compiled the signatures of the def kids of its
\* group and of the earlier groups are bound, so that a function can call one
\* defined later in its group; the def kids after a later var declaration are
\* not bound, and a call of one of them fails with "undefined name"
C15_GroupsPrescanned == [] GroupsBound /\ [][CallInGroup /\ CallAcrossVar]_vars

\* a function calling one defined after it in its group has been compiled, and
\* a further def kid waits behind a declaration
C15_Witness ==
    /\ InScope("kid")
    /\ Top.k > 1
    /\ LET j == Top.groups[Top.g][Top.k - 1]
           G == GroupOf(Top.node, j)
       IN  /\ Top.node[j].kind = "def"
           /\ Top.node[j].calls \notin {"", Top.node[j].name}
           /\ \E i \in DefsUpTo(Top.node, G) :
                i > j /\ GroupOf(Top.node, i) = G /\ Top.node[i].name = Top.node[j].calls
           /\ DefsAfter(Top.node, G) # {}
           /\ \E f \in 1..Len(ctx) : \E i \in 1..Len(ctx[f].code) :
                ctx[f].code[i][1] = "call" /\ ctx[f].code[i][2] # f - 2

----------------------------------------------------------------------------
(* CodeGen.const: the bytes emitted for (const val dst) and their execution. *)
(* An integer of the source is a sign and a magnitude of four 16-bit limbs,  *)
(* the least significant first; a register is eight bytes, the least         *)
(* significant first.                                                        *)

LimbValues == {0, 1, 32767, 32768, 65535}

\* mag < 2^31
Below31(mag) == mag[4] = 0 /\ mag[3] = 0 /\ mag[2] < 32768

\* mag = 2^31
Is31(mag) == mag = <<0, 32768, 0, 0>>

\* mag < 2^63
Below63(mag) == mag[4] < 32768

\* the integers tried: signed 64-bit, zero has no sign
Int64s ==
    {v \in [neg : BOOLEAN, mag : [1..4 -> LimbValues]] :
        IF v.neg THEN v.mag # <<0, 0, 0, 0>> /\ (Below63(v.mag) \/ v.mag = <<0, 0, 0, 32768>>)
        ELSE Below63(v.mag)}

\* the slots tried: displacement 0, 8 bits and 32 bits
Slots == {0, 1, 16}

\* what rax holds before the instruction
Garbage == {<<0, 0, 0, 0, 0, 0, 0, 0>>, <<255, 255, 255, 255, 255, 255, 255, 255>>,
            <<239, 205, 171, 137, 103, 69, 35, 1>>}

\* the bytes of an unsigned magnitude
MagBytes(mag) == [i \in 1..8 |-> IF i % 2 = 1 THEN mag[(i + 1) \div 2] % 256
                                 ELSE mag[i \div 2] \div 256]

\* two's complement negation: every byte complemented, one added
RECURSIVE AddOne(_)
AddOne(bs) ==
    IF bs = <<>> THEN <<>>
    ELSE IF Head(bs) = 255 THEN <<0>> \o AddOne(Tail(bs))
    ELSE <<Head(bs) + 1>> \o Tail(bs)

Negated(bs) == AddOne([i \in 1..Len(bs) |-> 255 - bs[i]])

\* val == 0, val == -1
IsZero(val) == ~val.neg /\ val.mag = <<0, 0, 0, 0>>
IsMinusOne(val) == val.neg /\ val.mag = <<1, 0, 0, 0>>

\* (val >> 31) == 0: the floor of val / 2^31 is 0
Shr31Is0(val) == ~val.neg /\ Below31(val.mag)

\* (val >> 31) == -1: the floor of val / 2^31 is -1
Shr31IsMinus1(val) == val.neg /\ (Below31(val.mag) \/ Is31(val.mag))

\* struct.pack('<q', i)
i64(val) == IF val.neg THEN Negated(MagBytes(val.mag)) ELSE MagBytes(val.mag)

\* struct.pack('<i', i); <<>> stands for struct.error
i32(val) == IF Shr31Is0(val) \/ Shr31IsMinus1(val) THEN SubSeq(i64(val), 1, 4) ELSE <<>>

\* CodeGen.i8
i8(i) == <<IF i >= 0 THEN i ELSE 256 + i>>

\* struct.pack('<i', i) of a small integer
i32_small(i) ==
    LET u == IF i >= 0 THEN i ELSE 16777216 + i
    IN  <<u % 256, (u \div 256) % 256, (u \div 65536) % 256, IF i >= 0 THEN u \div 16777216 ELSE 255>>

\* asm_disp for reg < 8 and rm < 8
asm_disp(lead, reg, rm, disp) ==
    LET mod == IF disp = 0 THEN 0 ELSE IF -128 <= disp /\ disp < 128 THEN 1 ELSE 2
    IN  lead \o <<mod * 64 + reg * 8 + rm>>
          \o (IF mod = 1 THEN i8(disp) ELSE IF mod = 2 THEN i32_small(disp) ELSE <<>>)

\* mov [rm + disp], reg
asm_store(rm, disp, reg) == asm_disp(<<72, 137>>, reg, rm, disp)

\* mov [rbx + dst*8], rax
store_rax(dst) == asm_store(3, dst * 8, 0)

\* the instruction without the sign-extended form: mov eax, imm32 for every
\* value of 32 bits
const_load_zero_extended(val) ==
    IF IsZero(val) THEN <<49, 192>>
    ELSE IF IsMinusOne(val) THEN <<72, 131, 200, 255>>
    ELSE IF Shr31Is0(val) \/ Shr31IsMinus1(val) THEN <<184>> \o i32(val)
    ELSE <<72, 184>> \o i64(val)

\* the instruction CodeGen.const chooses for an int
const_load(val) ==
    IF IsZero(val) THEN <<49, 192>>
    ELSE IF IsMinusOne(val) THEN <<72, 131, 200, 255>>
    ELSE IF Shr31Is0(val) THEN <<184>> \o i32(val)
    ELSE IF Shr31IsMinus1(val) THEN <<72, 199, 192>> \o i32(val)
    ELSE <<72, 184>> \o i64(val)

\* CodeGen.const(val, dst) for an int
const(val, dst) == const_load(val) \o store_rax(dst)

(* The processor: the instructions of x86-64 that const emits.              *)

RECURSIVE BitOr(_, _, _)
BitOr(a, b, n) ==
    IF n = 0 THEN 0
    ELSE (IF a % 2 = 1 \/ b % 2 = 1 THEN 1 ELSE 0) + 2 * BitOr(a \div 2, b \div 2, n - 1)

\* an immediate of n bytes extended to eight bytes by its sign
SignExtended(bs) ==
    bs \o [i \in 1..(8 - Len(bs)) |-> IF bs[Len(bs)] >= 128 THEN 255 ELSE 0]

ZeroExtended(bs) == bs \o [i \in 1..(8 - Len(bs)) |-> 0]

\* a signed displacement of one or four bytes, small enough to be a number
Displacement(bs) ==
    IF Len(bs) = 1 THEN (IF bs[1] >= 128 THEN bs[1] - 256 ELSE bs[1])
    ELSE IF bs[4] = 255 THEN bs[1] + 256 * bs[2] + 65536 * bs[3] - 16777216
    ELSE bs[1] + 256 * bs[2] + 65536 * bs[3] + 16777216 * bs[4]

\* the instruction at ip of buf executed on m = [rax, ip, mem]; the address
\* stored to is relative to rbx
Execute(buf, m) ==
    LET b(i) == buf[m.ip + i]
        imm(i, n) == SubSeq(buf, m.ip + i, m.ip + i + n - 1)
    IN  IF b(0) = 49 /\ b(1) = 192                       \* xor eax, eax
        THEN [m EXCEPT !.rax = ZeroExtended(<<0, 0, 0, 0>>), !.ip = @ + 2]
        ELSE IF b(0) = 72 /\ b(1) = 131 /\ b(2) = 200    \* or rax, imm8
        THEN [m EXCEPT !.rax = [i \in 1..8 |-> BitOr(m.rax[i], SignExtended(imm(3, 1))[i], 8)],
                       !.ip = @ + 4]
        ELSE IF b(0) = 184                               \* mov eax, imm32
        THEN [m EXCEPT !.rax = ZeroExtended(imm(1, 4)), !.ip = @ + 5]
        ELSE IF b(0) = 72 /\ b(1) = 199 /\ b(2) = 192    \* mov rax, imm32
        THEN [m EXCEPT !.rax = SignExtended(imm(3, 4)), !.ip = @ + 7]
        ELSE IF b(0) = 72 /\ b(1) = 184                  \* mov rax, imm64
        THEN [m EXCEPT !.rax = imm(2, 8), !.ip = @ + 10]
        ELSE IF b(0) = 72 /\ b(1) = 137 /\ b(2) % 64 = 3 \* mov [rbx + disp], rax
        THEN LET mod == b(2) \div 64
                 n   == IF mod = 0 THEN 0 ELSE IF mod = 1 THEN 1 ELSE 4
                 at  == IF mod = 0 THEN 0 ELSE Displacement(imm(3, n))
             IN  [m EXCEPT !.mem = [addr |-> at, val |-> m.rax], !.ip = @ + 3 + n]
        ELSE [m EXCEPT !.ip = 0]                         \* not an instruction of const

\* the value of a register as a signed integer
Signed(bs) ==
    LET u == IF bs[8] >= 128 THEN Negated(bs) ELSE bs
    IN  [neg |-> bs[8] >= 128, mag |-> [i \in 1..4 |-> u[2 * i - 1] + 256 * u[2 * i]]]

InitConst ==
    /\ CompilerIdle
    /\ ty = Idle
    /\ \E val \in Int64s, dst \in Slots, rax \in Garbage :
         cpu = [pc |-> "emit", val |-> val, dst |-> dst, buf |-> <<>>,
                m |-> [rax |-> rax, ip |-> 1, mem |-> [addr |-> -1, val |-> rax]]]

\* CodeGen.const(val, dst) appends its bytes
gen_const ==
    /\ cpu.pc = "emit"
    /\ cpu' = [cpu EXCEPT !.buf = const(cpu.val, cpu.dst), !.pc = "load"]
    /\ UNCHANGED <<compiler, ty>>

\* the processor executes the instruction that loads rax
run_load ==
    /\ cpu.pc = "load"
    /\ cpu' = [cpu EXCEPT !.m = Execute(cpu.buf, cpu.m), !.pc = "store"]
    /\ UNCHANGED <<compiler, ty>>

\* the processor executes store_rax
run_store ==
    /\ cpu.pc = "store"
    /\ cpu' = [cpu EXCEPT !.m = Execute(cpu.buf, cpu.m), !.pc = "done"]
    /\ UNCHANGED <<compiler, ty>>

NextConst == gen_const \/ run_load \/ run_store

SpecConst == InitConst /\ [][NextConst]_vars

\* C16: for every integer n of the signed 64-bit range the instruction that
\* CodeGen.const emits for (const n dst) leaves n, as a 64-bit two's
\* complement value, in rax before rax is stored to slot dst
C16_ConstLoadsValue ==
    /\ cpu.pc = "store" =>
         (cpu.m.ip >= 1 /\ cpu.m.rax = i64(cpu.val) /\ Signed(cpu.m.rax) = cpu.val)
    /\ cpu.pc = "done" =>
         (cpu.m.ip = Len(cpu.buf) + 1 /\ cpu.m.mem = [addr |-> 8 * cpu.dst, val |-> cpu.m.rax]
            /\ Signed(cpu.m.mem.val) = cpu.val)

\* the least integer of 32 bits, loaded by the sign-extending form over a
\* register that held other bits, is stored to a slot with an 8-bit displacement
C16_Witness ==
    /\ cpu.pc = "done"
    /\ cpu.val = [neg |-> TRUE, mag |-> <<0, 32768, 0, 0>>]
    /\ SubSeq(cpu.buf, 1, 3) = <<72, 199, 192>>
    /\ cpu.dst = 1
    /\ cpu.m.mem.val = <<0, 0, 0, 128, 255, 255, 255, 255>>

----------------------------------------------------------------------------
(* The opcodes of the IR and their lowering.                                *)

\* the instruction methods of CodeGen, which CodeGen.func looks up by the name
\* of the opcode
CodeGenMethods ==
    {"const", "mov", "binop", "unop", "jmpf", "jmp", "call", "ret", "get_env", "set_env",
     "lea", "peek", "peek8", "poke", "poke8", "ref_var", "ref_env", "cast8", "syscall", "debug"}

\* the opcodes in the code of the functions
Opcodes == UNION {{ctx[f].code[i][1] : i \in 1..Len(ctx[f].code)} : f \in 1..Len(ctx)}

\* C17: the IR of an accepted program holds neither binop8 nor unop8, byte
\* operands included, so every opcode of it has a method in the code generator
C17_NoByteOpcodes ==
    Compiled => ("binop8" \notin Opcodes /\ "unop8" \notin Opcodes /\ Opcodes \subseteq CodeGenMethods)

----------------------------------------------------------------------------
(* The entry code of the ELF executable: create_stack and code_entry, and    *)
(* its execution up to the exit of the process.                              *)

\* the data stack of code_entry: 0x800000 bytes; a page: 0x1000 bytes
DataStack == 8388608
Page == 4096

\* the addresses mmap may return, and what the registers hold at the entry
Bases == {4096, 65536, 1048576, 16777216, 1073741824}
Leftovers == {0, 7, -1}

\* create_stack that protects the page at the base of the mapping
create_stack_first_page(data) ==
    <<184, 9, 0, 0, 0>> \o <<191, 0, 16, 0, 0>> \o <<72, 199, 198>> \o i32_small(data + Page)
      \o <<186, 3, 0, 0, 0>> \o <<65, 186, 34, 0, 0, 0>> \o <<73, 131, 200, 255>>
      \o <<77, 49, 201>> \o <<15, 5>> \o <<72, 137, 195>>
      \o <<184, 10, 0, 0, 0>> \o <<72, 141, 187>> \o i32_small(0) \o <<190, 0, 16, 0, 0>>
      \o <<49, 210>> \o <<15, 5>>

\* CodeGen.create_stack(data): the bytes of the mmap and of the mprotect
create_stack(data) ==
    <<184, 9, 0, 0, 0>>                      \* mov eax, 9
      \o <<191, 0, 16, 0, 0>>                \* mov edi, 4096
      \o <<72, 199, 198>> \o i32_small(data + Page)   \* mov rsi, data + 4096
      \o <<186, 3, 0, 0, 0>>                 \* mov edx, 3
      \o <<65, 186, 34, 0, 0, 0>>            \* mov r10d, 0x22
      \o <<73, 131, 200, 255>>               \* or r8, -1
      \o <<77, 49, 201>>                     \* xor r9, r9
      \o <<15, 5>>                           \* syscall
      \o <<72, 137, 195>>                    \* mov rbx, rax
      \o <<184, 10, 0, 0, 0>>                \* mov eax, 10
      \o <<72, 141, 187>> \o i32_small(data) \* lea rdi, [rbx + data]
      \o <<190, 0, 16, 0, 0>>                \* mov esi, 4096
      \o <<49, 210>>                         \* xor edx, edx
      \o <<15, 5>>                           \* syscall

\* CodeGen.asm_call(L) before the address is patched
asm_call(L) == <<232, 0, 0, 0, 0>>

\* CodeGen.code_entry
code_entry ==
    create_stack(DataStack) \o asm_call(0)
      \o <<184, 60, 0, 0, 0>>                \* mov eax, 60
      \o <<72, 139, 59>>                     \* mov rdi, [rbx]
      \o <<15, 5>>                           \* syscall

\* the kind of the instruction at ip of buf
Opcode(buf, ip) ==
    LET b(i) == IF ip + i <= Len(buf) THEN buf[ip + i] ELSE -1
    IN  IF b(0) = 15 /\ b(1) = 5 THEN "syscall"
        ELSE IF b(0) = 232 THEN "call"
        ELSE IF b(0) \in {184, 186, 190, 191} THEN "mov r32, imm32"
        ELSE IF b(0) = 65 /\ b(1) = 186 THEN "mov r10d, imm32"
        ELSE IF b(0) = 72 /\ b(1) = 199 /\ b(2) = 198 THEN "mov rsi, imm32"
        ELSE IF b(0) = 73 /\ b(1) = 131 /\ b(2) = 200 THEN "or r8, imm8"
        ELSE IF b(0) = 77 /\ b(1) = 49 /\ b(2) = 201 THEN "xor r9, r9"
        ELSE IF b(0) = 49 /\ b(1) = 210 THEN "xor edx, edx"
        ELSE IF b(0) = 72 /\ b(1) = 137 /\ b(2) = 195 THEN "mov rbx, rax"
        ELSE IF b(0) = 72 /\ b(1) = 141 /\ b(2) = 187 THEN "lea rdi, [rbx + disp32]"
        ELSE IF b(0) = 72 /\ b(1) = 139 /\ b(2) = 59 THEN "mov rdi, [rbx]"
        ELSE "none"

\* the register written by mov r32, imm32
Reg32(opcode) ==
    CASE opcode = 184 -> "rax" [] opcode = 186 -> "rdx" [] opcode = 190 -> "rsi"
      [] opcode = 191 -> "rdi"

\* an instruction of the entry code other than syscall and call, executed on
\* the registers r; word is the memory at [rbx]
ExecuteEntry(buf, ip, r, word) ==
    LET op == Opcode(buf, ip)
        imm(i) == Displacement(SubSeq(buf, ip + i, ip + i + 3))
    IN  CASE op = "mov r32, imm32" -> [ip |-> ip + 5, r |-> [r EXCEPT ![Reg32(buf[ip])] = imm(1)]]
          [] op = "mov r10d, imm32" -> [ip |-> ip + 6, r |-> [r EXCEPT !["r10"] = imm(2)]]
          [] op = "mov rsi, imm32" -> [ip |-> ip + 7, r |-> [r EXCEPT !["rsi"] = imm(3)]]
          [] op = "or r8, imm8" ->
               [ip |-> ip + 4,
                r |-> [r EXCEPT !["r8"] = IF buf[ip + 3] = 255 THEN -1 ELSE r["r8"]]]
          [] op = "xor r9, r9" -> [ip |-> ip + 3, r |-> [r EXCEPT !["r9"] = 0]]
          [] op = "xor edx, edx" -> [ip |-> ip + 2, r |-> [r EXCEPT !["rdx"] = 0]]
          [] op = "mov rbx, rax" -> [ip |-> ip + 3, r |-> [r EXCEPT !["rbx"] = r["rax"]]]
          [] op = "lea rdi, [rbx + disp32]" ->
               [ip |-> ip + 7, r |-> [r EXCEPT !["rdi"] = r["rbx"] + imm(3)]]
          [] op = "mov rdi, [rbx]" -> [ip |-> ip + 3, r |-> [r EXCEPT !["rdi"] = word]]

Registers == {"rax", "rbx", "rdi", "rsi", "rdx", "r10", "r8", "r9"}

InitEntry ==
    /\ CompilerIdle
    /\ ty = Idle
    /\ \E left \in Leftovers :
         cpu = [pc |-> "emit", buf |-> <<>>, ip |-> 1, r |-> [x \in Registers |-> left],
                word |-> left, sys |-> <<>>, main |-> -1]

\* output_elf emits the entry code
entry_emit ==
    /\ cpu.pc = "emit"
    /\ cpu' = [cpu EXCEPT !.buf = code_entry, !.pc = "run"]
    /\ UNCHANGED <<compiler, ty>>

\* the processor executes an instruction that is neither syscall nor call
entry_step ==
    /\ cpu.pc = "run"
    /\ Opcode(cpu.buf, cpu.ip) \notin {"syscall", "call", "none"}
    /\ LET e == ExecuteEntry(cpu.buf, cpu.ip, cpu.r, cpu.word)
       IN  cpu' = [cpu EXCEPT !.ip = e.ip, !.r = e.r]
    /\ UNCHANGED <<compiler, ty>>

\* the arguments of a system call
SysCall(r) == [nr |-> r["rax"], a1 |-> r["rdi"], a2 |-> r["rsi"], a3 |-> r["rdx"],
               a4 |-> r["r10"], a5 |-> r["r8"], a6 |-> r["r9"], ret |-> 0]

\* syscall: mmap returns the base of the mapping, mprotect 0 or an error, exit
\* ends the process
entry_syscall ==
    /\ cpu.pc = "run"
    /\ Opcode(cpu.buf, cpu.ip) = "syscall"
    /\ \E ret \in IF cpu.r["rax"] = 9 THEN Bases ELSE IF cpu.r["rax"] = 10 THEN {0, -1} ELSE {0} :
         cpu' = [cpu EXCEPT !.sys = Append(@, [SysCall(cpu.r) EXCEPT !.ret = ret]),
                            !.r = [@ EXCEPT !["rax"] = ret],
                            !.ip = @ + 2,
                            !.pc = IF cpu.r["rax"] = 60 THEN "exit" ELSE "run"]
    /\ UNCHANGED <<compiler, ty>>

\* call main: main runs on the data stack at rbx and leaves its result in the
\* first word of it; rbx is kept, the other registers are not
entry_call_main ==
    /\ cpu.pc = "run"
    /\ Opcode(cpu.buf, cpu.ip) = "call"
    /\ \E result \in {0, 1}, left \in Leftovers :
         cpu' = [cpu EXCEPT !.main = Len(cpu.sys), !.word = result,
                            !.r = [x \in Registers |-> IF x = "rbx" THEN cpu.r[x] ELSE left],
                            !.ip = @ + 5]
    /\ UNCHANGED <<compiler, ty>>

NextEntry == entry_emit \/ entry_step \/ entry_syscall \/ entry_call_main

SpecEntry == InitEntry /\ [][NextEntry]_vars

\* the system calls made so far with number nr
Calls(nr) == {i \in 1..Len(cpu.sys) : cpu.sys[i].nr = nr}

\* main is called after the mmap and the mprotect, and only then
MainAfterBoth ==
    /\ cpu.main >= 0 => (cpu.main = 2 /\ cpu.sys[1].nr = 9 /\ cpu.sys[2].nr = 10)
    /\ (cpu.pc = "run" /\ Opcode(cpu.buf, cpu.ip) = "call") =>
         (Calls(9) = {1} /\ Calls(10) = {2} /\ cpu.r["rbx"] = cpu.sys[1].ret)

\* mmap maps DataStack + Page bytes, readable and writable, and rbx keeps the
\* base returned
MapsStack ==
    Len(cpu.sys) >= 1 =>
        (cpu.sys[1].nr = 9 /\ cpu.sys[1].a2 = DataStack + Page /\ cpu.sys[1].a3 = 3)

\* C18 as stated: mprotect is issued with the base that mmap returned, length
\* 0x1000 and protection 0, so that the guard page is the first page of the
\* mapping, and main is called only after both system calls
C18_GuardPageFirst ==
    /\ MainAfterBoth
    /\ \A i \in Calls(10) :
         /\ i = 2
         /\ cpu.sys[i].a1 = cpu.sys[1].ret
         /\ cpu.sys[i].a2 = Page
         /\ cpu.sys[i].a3 = 0

\* C18 amended: mprotect is issued with the base that mmap returned plus the
\* size of the data stack, length 0x1000 and protection 0, so that the guard
\* page is the last page of the mapping of DataStack + Page bytes, above the
\* data stack; main is called only after both system calls
C18_GuardPageLast ==
    /\ MainAfterBoth
    /\ MapsStack
    /\ \A i \in Calls(10) :
         /\ i = 2
         /\ cpu.sys[i].a1 = cpu.sys[1].ret + DataStack
         /\ cpu.sys[i].a1 + cpu.sys[i].a2 = cpu.sys[1].ret + cpu.sys[1].a2
         /\ cpu.sys[i].a2 = Page
         /\ cpu.sys[i].a3 = 0

\* the process has exited with the result of main, after the mapping at a
\* base other than the hint and the protection of its guard page
C18_Witness ==
    /\ cpu.pc = "exit"
    /\ cpu.main = 2
    /\ Len(cpu.sys) = 3
    /\ cpu.sys[1].ret = 65536
    /\ cpu.sys[2].a1 = 65536 + DataStack
    /\ cpu.sys[3].nr = 60
    /\ cpu.sys[3].a1 = 1

----------------------------------------------------------------------------
(* The levels of the call instructions.                                      *)

\* the call instructions emitted: <<f, i>> is instruction i of ctx[f]
CallsEmitted ==
    {p \in UNION {{<<f, i>> : i \in 1..Len(ctx[f].code)} : f \in 1..Len(ctx)} :
        ctx[p[1]].code[p[2]][1] = "call"}

\* the functions enclosing ctx[f], ctx[f] included
RECURSIVE Ancestors(_)
Ancestors(f) == IF f = 0 THEN {} ELSE {f} \cup Ancestors(ctx[f].prev)

\* C19: every call instruction emitted has 1 <= level_cur and
\* 1 <= level_new <= level_cur + 1, the callee being defined in the caller or
\* in a function enclosing it, so the assertions of CodeGen.call hold
C19_CallLevels ==
    \A p \in CallsEmitted :
        LET ins    == ctx[p[1]].code[p[2]]
            callee == ctx[ins[2] + 2]
        IN  /\ 1 <= ins[4]
            /\ 1 <= ins[5]
            /\ ins[5] <= ins[4] + 1
            /\ ins[4] = ctx[p[1]].level
            /\ ins[5] = callee.level
            /\ callee.prev \in Ancestors(p[1])

\* an accepted program with a call of a child, a call at the same level and a
\* call of a function of an outer level
C19_Witness ==
    /\ Compiled
    /\ \E p \in CallsEmitted : ctx[p[1]].code[p[2]][5] = ctx[p[1]].code[p[2]][4] + 1
    /\ \E p \in CallsEmitted : ctx[p[1]].code[p[2]][5] = ctx[p[1]].code[p[2]][4]
    /\ \E p \in CallsEmitted : ctx[p[1]].code[p[2]][5] < ctx[p[1]].code[p[2]][4]

----------------------------------------------------------------------------
(* The machine stack at run time: the instructions of CodeGen.call,          *)
(* CodeGen.ret and CodeGen.load_env_addr executed over chains of calls.      *)
(* A program is the tree of its functions, tree[f] being the function that   *)
(* defines f (0 for main, which is function 1); every function is defined at *)
(* the top of the body of its parent, so that a function can call its        *)
(* children and the children of the functions enclosing it.                  *)

\* the most functions of a program, the longest chain of live calls
MaxTree == 4
MaxDepth == 5

\* the first argument slot of a call
ArgStarts == {0, 2}

Trees == UNION {{t \in [1..n -> 0..(n - 1)] : t[1] = 0 /\ \A f \in 2..n : 1 <= t[f] /\ t[f] < f}
                  : n \in 1..MaxTree}

RECURSIVE LevelOf(_, _)
\* Func.level: main is 1
LevelOf(t, f) == IF f = 0 THEN 0 ELSE LevelOf(t, t[f]) + 1

RECURSIVE EnclosingAt(_, _, _)
\* the function at level L that encloses f, f itself at its own level
EnclosingAt(t, f, L) == IF LevelOf(t, f) = L THEN f ELSE EnclosingAt(t, t[f], L)

\* the functions visible in f: main, the children of f and of the functions
\* around it
Visible(t, f) == {d \in DOMAIN t : \E L \in 0..LevelOf(t, f) :
                                      t[d] = IF L = 0 THEN 0 ELSE EnclosingAt(t, f, L)}

\* the word a call instruction pushes, and a word from beyond the stack
ReturnAddress == -1
Unknown == -99

Min2(a, b) == IF a < b THEN a ELSE b

Ins(op, arg) == [op |-> op, arg |-> arg]

\* CodeGen.call that copies the list of the caller from the offset of its own
\* level
call_copies_from_own_level(func, arg_start, level_cur, level_new) ==
    (IF level_new > level_cur THEN <<Ins("push rbx", 0)>> ELSE <<>>)
      \o [i \in 1..(Min2(level_new, level_cur) - 1) |-> Ins("push [rsp + disp]", (level_cur - 1) * 8)]
      \o (IF arg_start # 0 THEN <<Ins("add rbx", arg_start * 8)>> ELSE <<>>)
      \o <<Ins("call", func)>>
      \o (IF arg_start # 0 THEN <<Ins("add rbx", -arg_start * 8)>> ELSE <<>>)
      \o <<Ins("add rsp", (level_new - 1) * 8)>>

\* CodeGen.call that discards the copied pointers only
call_discards_copies(func, arg_start, level_cur, level_new) ==
    (IF level_new > level_cur THEN <<Ins("push rbx", 0)>> ELSE <<>>)
      \o [i \in 1..(Min2(level_new, level_cur) - 1) |-> Ins("push [rsp + disp]", (level_new - 1) * 8)]
      \o (IF arg_start # 0 THEN <<Ins("add rbx", arg_start * 8)>> ELSE <<>>)
      \o <<Ins("call", func)>>
      \o (IF arg_start # 0 THEN <<Ins("add rbx", -arg_start * 8)>> ELSE <<>>)
      \o <<Ins("add rsp", (Min2(level_new, level_cur) - 1) * 8)>>

\* CodeGen.call: the instructions of (call func arg_start level_cur level_new)
call(func, arg_start, level_cur, level_new) ==
    IF ~(1 <= level_cur /\ 1 <= level_new /\ level_new <= level_cur + 1)
    THEN <<Ins("AssertionError", 0)>>
    ELSE (IF level_new > level_cur THEN <<Ins("push rbx", 0)>> ELSE <<>>)
           \o [i \in 1..(Min2(level_new, level_cur) - 1) |->
                 Ins("push [rsp + disp]", (level_new - 1) * 8)]
           \o (IF arg_start # 0 THEN <<Ins("add rbx", arg_start * 8)>> ELSE <<>>)
           \o <<Ins("call", func)>>
           \o (IF arg_start # 0 THEN <<Ins("add rbx", -arg_start * 8)>> ELSE <<>>)
           \o <<Ins("add rsp", (level_new - 1) * 8)>>

\* CodeGen.load_env_addr: mov rax, [rsp + level_var*8]
load_env_addr(level_var) == Ins("mov rax, [rsp + disp]", level_var * 8)

\* the word at [rsp + disp]
Word(rsp, disp) == IF disp \div 8 + 1 <= Len(rsp) THEN rsp[disp \div 8 + 1] ELSE Unknown

\* the entry code has called main with the data stack at 0
InitEnv ==
    /\ CompilerIdle
    /\ ty = Idle
    /\ \E t \in Trees :
         cpu = [pc |-> "run", tree |-> t, rsp |-> <<ReturnAddress>>, rbx |-> 0, rax |-> Unknown,
                env |-> 0, back |-> 0,
                acts |-> <<[fn |-> 1, base |-> 0, rsp0 |-> <<ReturnAddress>>, todo |-> <<>>]>>]

\* the activation that runs
Act == cpu.acts[Len(cpu.acts)]

AtIns(op) == cpu.pc = "run" /\ Act.todo # <<>> /\ Head(Act.todo).op = op

\* the instruction is done
Done(rsp, rbx) ==
    /\ cpu' = [cpu EXCEPT !.rsp = rsp, !.rbx = rbx, !.env = 0,
                          !.back = IF Head(Act.todo).op = "add rsp"
                                   THEN Head(Act.todo).arg \div 8 + 1 ELSE 0,
                          !.acts[Len(cpu.acts)].todo = Tail(@)]
    /\ UNCHANGED <<compiler, ty>>

\* the body of the function comes to a call of a visible function
env_call ==
    /\ cpu.pc = "run"
    /\ Act.todo = <<>>
    /\ Len(cpu.acts) < MaxDepth
    /\ \E d \in Visible(cpu.tree, Act.fn), arg_start \in ArgStarts :
         cpu' = [cpu EXCEPT !.env = 0,
                            !.back = 0,
                            !.acts[Len(cpu.acts)].todo =
                               call(d, arg_start, LevelOf(cpu.tree, Act.fn), LevelOf(cpu.tree, d))]
    /\ UNCHANGED <<compiler, ty>>

\* push rbx
env_push_rbx ==
    /\ AtIns("push rbx")
    /\ Done(<<cpu.rbx>> \o cpu.rsp, cpu.rbx)

\* push [rsp + disp]: the address is taken before rsp moves
env_push_mem ==
    /\ AtIns("push [rsp + disp]")
    /\ Done(<<Word(cpu.rsp, Head(Act.todo).arg)>> \o cpu.rsp, cpu.rbx)

\* add rbx, imm32
env_add_rbx ==
    /\ AtIns("add rbx")
    /\ Done(cpu.rsp, cpu.rbx + Head(Act.todo).arg)

\* call func: the callee starts with its frame at rbx
env_enter ==
    /\ AtIns("call")
    /\ cpu' = [cpu EXCEPT !.rsp = <<ReturnAddress>> \o @,
                          !.env = 0,
                          !.back = 0,
                          !.acts = Append([@ EXCEPT ![Len(cpu.acts)].todo = Tail(@)],
                                          [fn |-> Head(Act.todo).arg, base |-> cpu.rbx,
                                           rsp0 |-> <<ReturnAddress>> \o cpu.rsp,
                                           todo |-> <<>>])]
    /\ UNCHANGED <<compiler, ty>>

\* add rsp, imm32
env_add_rsp ==
    /\ AtIns("add rsp")
    /\ Done(SubSeq(cpu.rsp, Head(Act.todo).arg \div 8 + 1, Len(cpu.rsp)), cpu.rbx)

\* CodeGen.ret: the body of the function ends; ret pops the return address
env_ret ==
    /\ cpu.pc = "run"
    /\ Act.todo = <<>>
    /\ cpu' = [cpu EXCEPT !.rsp = Tail(@),
                          !.env = 0,
                          !.back = 0,
                          !.acts = Front(@),
                          !.pc = IF Head(cpu.rsp) # ReturnAddress THEN "crash"
                                 ELSE IF Len(cpu.acts) = 1 THEN "exit" ELSE "run"]
    /\ UNCHANGED <<compiler, ty>>

\* load_env_addr(level_var) of a get_env, set_env or ref_env in the body
env_load_env_addr ==
    /\ cpu.pc = "run"
    /\ Act.todo = <<>>
    /\ \E level_var \in 1..(LevelOf(cpu.tree, Act.fn) - 1) :
         cpu' = [cpu EXCEPT !.rax = Word(cpu.rsp, load_env_addr(level_var).arg),
                            !.env = level_var,
                            !.back = 0]
    /\ UNCHANGED <<compiler, ty>>

NextEnv ==
    \/ env_call
    \/ env_push_rbx
    \/ env_push_mem
    \/ env_add_rbx
    \/ env_enter
    \/ env_add_rsp
    \/ env_ret
    \/ env_load_env_addr

SpecEnv == InitEnv /\ [][NextEnv]_vars

\* the live activations of function f
LiveOf(f) == {i \in 1..Len(cpu.acts) : cpu.acts[i].fn = f}

\* the base of the frame of the current activation of the level-L function
\* around the function that runs
OwnerBase(L) ==
    LET own == EnclosingAt(cpu.tree, Act.fn, L)
    IN  cpu.acts[CHOOSE i \in LiveOf(own) : \A j \in LiveOf(own) : j <= i].base

\* the function that runs is in its body: at its entry or between two calls
InBody == cpu.pc = "run" /\ Act.todo = <<>>

\* C20: on entry to a function of level n, and in its body, [rsp + 8*L] holds
\* for every L in 1..n-1 the base of the frame of the current activation of
\* the level-L function that encloses it, for every chain of calls; so the
\* address load_env_addr(L) leaves in rax is that of the owner's frame
C20_ShadowStack ==
    /\ InBody =>
         /\ Head(cpu.rsp) = ReturnAddress
         /\ Act.base = cpu.rbx
         /\ \A L \in 1..(LevelOf(cpu.tree, Act.fn) - 1) :
              LiveOf(EnclosingAt(cpu.tree, Act.fn, L)) # {} /\ Word(cpu.rsp, 8 * L) = OwnerBase(L)
    /\ (InBody /\ cpu.env > 0) => cpu.rax = OwnerBase(cpu.env)
    /\ cpu.pc # "crash"

\* a level-3 function, entered a second time through a call of the level-2
\* function around it from inside its first activation, reads the frame of
\* the newer activation of that function, which differs from the older one
C20_Witness ==
    /\ InBody
    /\ LevelOf(cpu.tree, Act.fn) = 3
    /\ Cardinality(LiveOf(Act.fn)) = 2
    /\ Cardinality(LiveOf(cpu.tree[Act.fn])) = 2
    /\ cpu.env = 2
    /\ cpu.rax = OwnerBase(2)
    /\ \E i \in LiveOf(cpu.tree[Act.fn]) : cpu.acts[i].base # cpu.rax

----------------------------------------------------------------------------
(* The effect of one call on rsp and rbx.                                    *)

\* the first argument slot of the call under way: what add rbx will take back
ArgStartNow ==
    IF Len(Act.todo) >= 2 /\ Act.todo[2].op = "add rbx" THEN -(Act.todo[2].arg \div 8) ELSE 0

\* C21: the code of one call leaves rsp and rbx as they were once the callee
\* has returned: at the call instruction level_new - 1 frame pointers are
\* pushed, whether level_new > level_cur or not, which is what add rsp
\* removes, and rbx is 8*arg_start further, which the second add takes back
C21_CallBalanced ==
    /\ AtIns("call") =>
         /\ Len(cpu.rsp) = Len(Act.rsp0) + LevelOf(cpu.tree, Head(Act.todo).arg) - 1
         /\ SubSeq(cpu.rsp, Len(cpu.rsp) - Len(Act.rsp0) + 1, Len(cpu.rsp)) = Act.rsp0
         /\ cpu.rbx = Act.base + 8 * ArgStartNow
         /\ Last(Act.todo) = Ins("add rsp", 8 * (LevelOf(cpu.tree, Head(Act.todo).arg) - 1))
    /\ InBody => (cpu.rsp = Act.rsp0 /\ cpu.rbx = Act.base)

\* a level-2 function is back from a call of its child, made with arguments
\* from slot 2, and a level-3 function is back from a call of a level-2 one
C21_Witness ==
    /\ InBody
    /\ cpu.back > 0
    /\ \/ LevelOf(cpu.tree, Act.fn) = 2 /\ cpu.back = 3 /\ Act.base = 16
       \/ LevelOf(cpu.tree, Act.fn) = 3 /\ cpu.back = 2

----------------------------------------------------------------------------
(* CodeGen.ret and the slot of the value a call returns.                     *)

\* mov reg, [rm + disp]
asm_load(reg, rm, disp) == asm_disp(<<72, 139>>, reg, rm, disp)

\* mov rax, [rbx + src*8]
load_rax(src) == asm_load(0, 3, src * 8)

\* CodeGen.ret that returns without moving the value
ret_in_place(a1) == <<195>>

\* CodeGen.ret(a1)
ret(a1) == (IF a1 > 0 THEN load_rax(a1) \o store_rax(0) ELSE <<>>) \o <<195>>

\* the frame of a callee before its ret: every slot holds a value of its own
SlotsOfFrame == 0..15
Frame == [s \in SlotsOfFrame |-> 100 + s]

RECURSIVE RunRet(_, _)
\* the bytes of a ret executed from m = [ip, rax, mem, returned] up to the
\* machine ret; mem is the frame at rbx, by slot
RunRet(buf, m) ==
    LET b(i) == IF m.ip + i <= Len(buf) THEN buf[m.ip + i] ELSE -1
        mod  == b(2) \div 64
        n    == IF mod = 0 THEN 0 ELSE IF mod = 1 THEN 1 ELSE 4
        disp == IF mod = 0 THEN 0 ELSE Displacement(SubSeq(buf, m.ip + 3, m.ip + 2 + n))
    IN  IF b(0) = 195 THEN [m EXCEPT !.returned = TRUE]
        ELSE IF b(0) = 72 /\ b(1) = 139 /\ b(2) % 64 = 3     \* mov rax, [rbx + disp]
        THEN RunRet(buf, [m EXCEPT !.rax = m.mem[disp \div 8], !.ip = @ + 3 + n])
        ELSE IF b(0) = 72 /\ b(1) = 137 /\ b(2) % 64 = 3     \* mov [rbx + disp], rax
        THEN RunRet(buf, [m EXCEPT !.mem[disp \div 8] = m.rax, !.ip = @ + 3 + n])
        ELSE m

\* the frame of the callee when the machine ret of (ret a1) executes
FrameAtRet(a1) == RunRet(ret(a1), [ip |-> 1, rax |-> Unknown, mem |-> Frame, returned |-> FALSE])

\* the address of slot s of a frame at base
SlotAddress(base, s) == base + 8 * s

\* rbx at the call instruction of the code of a call made with rbx = base
RECURSIVE RbxAtCall(_, _)
RbxAtCall(code, base) ==
    IF code = <<>> \/ Head(code).op = "call" THEN base
    ELSE RbxAtCall(Tail(code), IF Head(code).op = "add rbx" THEN base + Head(code).arg ELSE base)

\* the ret instructions of the functions that return a value
ValueRets ==
    {p \in UNION {{<<f, i>> : i \in 1..Len(ctx[f].code)} : f \in Funcs} :
        ctx[p[1]].code[p[2]][1] = "ret" /\ ctx[p[1]].rtype # TVoid}

\* the value returned is in slot 0 of the callee at the machine ret
ReturnedInSlot0 ==
    \A p \in ValueRets :
        LET a1 == ctx[p[1]].code[p[2]][2]
        IN  /\ a1 >= 0
            /\ FrameAtRet(a1).returned
            /\ FrameAtRet(a1).mem[0] = Frame[a1]

\* slot 0 of the callee is the slot the call expression returns to its caller
ResultIsCalleeSlot0 ==
    LET ins == Last(ctx'[Top.f].code)
    IN  ctx[ins[2] + 2].rtype # TVoid =>
          /\ ins[1] = "call"
          /\ rv'.var = ins[3]
          /\ \A base \in {0, 16} :
               SlotAddress(RbxAtCall(call(ins[2], ins[3], ins[4], ins[5]), base), 0)
                 = SlotAddress(base, rv'.var)

\* C22: for every call of a function that returns a value, by (return e) or by
\* the implicit ret, the value is in slot 0 of the callee when the machine ret
\* executes, and that word is slot arg_start of the caller, which the call
\* expression returns as its result
C22_ReturnSlot ==
    /\ [] ReturnedInSlot0
    /\ [][(At("pl_comp_call", "args") /\ Len(cs') < Len(cs) /\ Compiling')
            => ResultIsCalleeSlot0]_vars

\* an accepted program in which a function that is called returns the value of
\* a slot above 0 by (return e) and has its implicit ret as well
C22_Witness ==
    /\ Compiled
    /\ \E f \in Funcs :
         /\ ctx[f].rtype # TVoid
         /\ \E p \in ValueRets : p[1] = f /\ ctx[f].code[p[2]][2] > 0 /\ p[2] < Len(ctx[f].code)
         /\ \E g \in Funcs : \E i \in 1..Len(ctx[g].code) :
              ctx[g].code[i][1] = "call" /\ ctx[g].code[i][2] = f - 2

----------------------------------------------------------------------------
(* The slot that pl_comp_expr returns.                                       *)

\* pl_comp_expr returns to its caller
ExprReturns == At("pl_comp_expr", "ret") /\ Len(cs') < Len(cs) /\ Compiling'

\* the slot returned is below the height reached in the dispatch, and it is
\* void, a live local or the slot at the height left
SlotOfExpr ==
    LET F == ctx'[Top.f]
    IN  /\ rv'.var < fenv.stack
        /\ rv'.var <= F.stack
        /\ rv'.var = -1 \/ rv'.var < F.nvar \/ rv'.var = F.stack

\* pl_comp_scope returns to its caller
ScopeReturns == At("pl_comp_scope", "kids") /\ Len(cs') < Len(cs) /\ Compiling'

\* a result at or above the height that the scope leaves is returned in the
\* slot at that height, by a mov unless it is there already
SlotOfScope ==
    LET F    == ctx'[Top.f]
        left == scope_leave(fenv).stack
    IN  IF Top.n > 0 /\ rv.var >= left
        THEN /\ rv'.var = left
             /\ F.stack = left + 1
             /\ F.code = IF rv.var = left THEN fenv.code
                         ELSE Append(fenv.code, <<"mov", rv.var, left>>)
        ELSE /\ rv'.var = (IF Top.n = 0 THEN -1 ELSE rv.var)
             /\ F.stack = left
             /\ F.code = fenv.code

\* C23: for every form the slot pl_comp_expr returns is below the stack height
\* reached in the dispatch and at or below the height left once the
\* temporaries are discarded, a live local or the slot at the new top, so the
\* two assertions on var in pl_comp_expr never fail; a scope whose last result
\* is a local that the exit of the scope destroys returns it in the slot at
\* the stack top after the exit
C23_ExprSlot ==
    /\ [] ~(status = "AssertionError"
              /\ msg \in {"pl_comp_expr: var < stack", "pl_comp_expr: var <= stack"})
    /\ [][(ExprReturns => SlotOfExpr) /\ (ScopeReturns => SlotOfScope)]_vars

\* pl_comp_expr is about to return the copy that a scope made of its second
\* local, which the exit of the scope destroyed
C23_Witness ==
    /\ At("pl_comp_expr", "ret")
    /\ fenv.code # <<>>
    /\ Last(fenv.code)[1] = "mov"
    /\ Last(fenv.code)[2] > Last(fenv.code)[3]
    /\ Last(fenv.code)[3] = rv.var
    /\ rv.var = fenv.stack - 1
    /\ rv.var >= fenv.nvar
    /\ \E i \in 1..(Len(fenv.code) - 1) :
         fenv.code[i][1] = "const" /\ fenv.code[i][3] = Last(fenv.code)[2]

----------------------------------------------------------------------------
(* The positions of the labels.                                              *)

\* pos2off of CodeGen.func has an entry for every instruction of the function:
\* the indices of it, counted from 0
Pos2OffIndices(F) == 0..(Len(F.code) - 1)

\* the labels of F that set_label has bound
BoundLabels(F) == {l \in 0..(Len(F.labels) - 1) : F.labels[l + 1] # -1}

\* every bound label of F is the index of an instruction of F
LabelsInCode(F) == \A l \in BoundLabels(F) : F.labels[l + 1] \in Pos2OffIndices(F)

\* pl_comp_func returns
FuncReturns ==
    At("pl_comp_func", "body") /\ status' \in {"compiling", "compiled"}
      /\ (Len(cs') < Len(cs) \/ status' = "compiled")

\* C24: when the compilation of a function is complete every bound label of it
\* is the index of one of its instructions, below len(code), the trailing ret
\* coming after the body; so pos2off[labels[L]] of a jump with a bound label
\* is never a lookup past the end
C24_LabelsInCode ==
    /\ [](Compiled => \A f \in Funcs : LabelsInCode(ctx[f]))
    /\ [][FuncReturns =>
            /\ LabelsInCode(ctx'[Top.f])
            /\ Last(ctx'[Top.f].code)[1] = "ret"
            /\ \A l \in BoundLabels(fenv) : fenv.labels[l + 1] <= Len(fenv.code)]_vars

\* an accepted program with a jump to a label bound at the end of the body: its
\* position is that of the trailing ret
C24_Witness ==
    /\ Compiled
    /\ \E f \in Funcs : \E i \in 1..Len(ctx[f].code) :
         /\ IsJump(ctx[f].code[i])
         /\ Label(ctx[f].code[i]) \in BoundLabels(ctx[f])
         /\ ctx[f].labels[Label(ctx[f].code[i]) + 1] = Len(ctx[f].code) - 1

\* ---------------------------------------------------------------------------
\* cast: the slots written by the instructions emitted for a cast

\* the instructions the step has appended to the code of the current function
Emitted == SubSeq(ctx'[Top.f].code, Len(fenv.code) + 1, Len(ctx'[Top.f].code))

\* the slots below nvar hold the named locals of the function being compiled
WritesLocal(ins) == Dest(ins) \in 0..(fenv.nvar - 1)

\* C25: when pl_comp_cast returns, no instruction it has emitted writes the slot
\* of a named local: a cast writes temporary slots only, so every local keeps
\* its value.
C25_CastKeepsLocals ==
    [][(At("pl_comp_cast", "value") /\ Compiling')
         => \A k \in 1..Len(Emitted) : ~WritesLocal(Emitted[k])]_vars

----------------------------------------------------------------------------
(* CodeGen.binop for / and %: the bytes emitted and their execution. The    *)
(* dividend is any integer of 64 bits; the divisor is an integer whose      *)
(* magnitude is one limb, so that the division is done byte by byte.        *)

\* the dividends tried
Dividends == Int64s \cup {[neg |-> n, mag |-> <<7, 0, 0, 0>>] : n \in BOOLEAN}

\* the divisors tried, zero among them
Divisors == {[neg |-> n, mag |-> <<d, 0, 0, 0>>] : n \in BOOLEAN, d \in {1, 2, 3, 7, 32768}}
              \cup {[neg |-> FALSE, mag |-> <<0, 0, 0, 0>>]}

\* the slots a1, a2 and dst tried: a temporary destination, the destination
\* on the first operand, a destination with a 32-bit displacement
DivSlots == {<<0, 1, 2>>, <<0, 1, 0>>, <<1, 0, 16>>}

\* CodeGen.binop(op, a1, a2, dst) for op in ('/', '%')
binop(op, a1, a2, dst) ==
    load_rax(a1)
      \o <<49, 210>>                                     \* xor edx, edx
      \o <<72, 247, 187>> \o i32_small(a2 * 8)            \* idiv rax, [rbx + a2*8]
      \o (IF op = "%" THEN <<72, 137, 208>> ELSE <<>>)    \* mov rax, rdx
      \o store_rax(dst)

(* The processor: the instructions of x86-64 that binop emits for / and %.  *)

\* an unsigned number of little-endian bytes divided by n, 0 < n < 2^23:
\* the quotient as bytes and the remainder as a number
RECURSIVE DivMod(_, _)
DivMod(bs, n) ==
    IF bs = <<>> THEN [q |-> <<>>, r |-> 0]
    ELSE LET hi  == DivMod(Tail(bs), n)
             cur == hi.r * 256 + Head(bs)
         IN  [q |-> <<cur \div n>> \o hi.q, r |-> cur % n]

\* the unsigned number of the low three bytes
Low3(bs) == bs[1] + 256 * bs[2] + 65536 * bs[3]

AllZero(bs) == \A i \in 1..Len(bs) : bs[i] = 0

\* the magnitude of a two's complement number
Magnitude(bs) == IF bs[Len(bs)] >= 128 THEN Negated(bs) ELSE bs

\* idiv r/m64: rdx:rax is divided by the operand as signed numbers, the
\* quotient truncated toward zero goes to rax and the remainder, with the
\* sign of the dividend, to rdx; a zero divisor or a quotient that is not a
\* signed 64-bit number raises the divide error
idiv(m, divisor) ==
    LET dividend == m.rax \o m.rdx
        sD  == dividend[16] >= 128
        sd  == divisor[8] >= 128
        n   == Low3(Magnitude(divisor))
        qr  == DivMod(Magnitude(dividend), n)
        neg == sD # sd
        fits == /\ AllZero(SubSeq(qr.q, 9, 16))
                /\ \/ qr.q[8] < 128
                   \/ neg /\ qr.q[8] = 128 /\ AllZero(SubSeq(qr.q, 1, 7))
        rem == <<qr.r % 256, (qr.r \div 256) % 256, qr.r \div 65536, 0, 0, 0, 0, 0>>
    IN  IF AllZero(divisor) THEN [m EXCEPT !.fault = "#DE"]
        ELSE IF ~fits THEN [m EXCEPT !.fault = "#DE"]
        ELSE [m EXCEPT !.rax = IF neg THEN Negated(SubSeq(qr.q, 1, 8)) ELSE SubSeq(qr.q, 1, 8),
                       !.rdx = IF sD THEN Negated(rem) ELSE rem]

\* the instruction at ip of buf executed on m = [rax, rdx, ip, mem, fault];
\* mem is the frame of the function, indexed by the displacement from rbx
ExecuteDiv(buf, m) ==
    LET b(i) == buf[m.ip + i]
        imm(i, n) == SubSeq(buf, m.ip + i, m.ip + i + n - 1)
        mod == b(2) \div 64
        n   == IF mod = 0 THEN 0 ELSE IF mod = 1 THEN 1 ELSE 4
        at  == IF mod = 0 THEN 0 ELSE Displacement(imm(3, n))
    IN  IF b(0) = 72 /\ b(1) = 139 /\ mod < 3 /\ b(2) % 64 = 3   \* mov rax, [rbx + disp]
        THEN [m EXCEPT !.rax = m.mem[at], !.ip = @ + 3 + n]
        ELSE IF b(0) = 49 /\ b(1) = 210                           \* xor edx, edx
        THEN [m EXCEPT !.rdx = ZeroExtended(<<0, 0, 0, 0>>), !.ip = @ + 2]
        ELSE IF b(0) = 72 /\ b(1) = 247 /\ b(2) = 187             \* idiv qword [rbx + disp32]
        THEN [idiv(m, m.mem[at]) EXCEPT !.ip = @ + 7]
        ELSE IF b(0) = 72 /\ b(1) = 137 /\ b(2) = 208             \* mov rax, rdx
        THEN [m EXCEPT !.rax = m.rdx, !.ip = @ + 3]
        ELSE IF b(0) = 72 /\ b(1) = 137 /\ mod < 3 /\ b(2) % 64 = 3   \* mov [rbx + disp], rax
        THEN [m EXCEPT !.mem[at] = m.rax, !.ip = @ + 3 + n]
        ELSE [m EXCEPT !.fault = "#UD"]

\* slots a1 and a2 hold a and b; rax, rdx and slot dst hold what was left there
InitDiv ==
    /\ CompilerIdle
    /\ ty = Idle
    /\ \E op \in {"/", "%"}, a \in Dividends, b \in Divisors, s \in DivSlots, old \in Garbage :
         cpu = [pc |-> "emit", op |-> op, a |-> a, b |-> b, a1 |-> s[1], a2 |-> s[2],
                dst |-> s[3], buf |-> <<>>,
                m |-> [rax |-> old, rdx |-> old, ip |-> 1, fault |-> "",
                       mem |-> [at \in {8 * s[1], 8 * s[2], 8 * s[3]} |->
                                  IF at = 8 * s[1] THEN i64(a)
                                  ELSE IF at = 8 * s[2] THEN i64(b) ELSE old]]]

\* CodeGen.binop(op, a1, a2, dst) appends its bytes
gen_binop ==
    /\ cpu.pc = "emit"
    /\ cpu' = [cpu EXCEPT !.buf = binop(cpu.op, cpu.a1, cpu.a2, cpu.dst), !.pc = "run"]
    /\ UNCHANGED <<compiler, ty>>

\* the processor executes the next instruction; a fault ends the program
run_binop ==
    /\ cpu.pc = "run"
    /\ LET m == ExecuteDiv(cpu.buf, cpu.m)
       IN  cpu' = [cpu EXCEPT !.m = m,
                              !.pc = IF m.fault # "" \/ m.ip > Len(cpu.buf) THEN "done" ELSE "run"]
    /\ UNCHANGED <<compiler, ty>>

NextDiv == gen_binop \/ run_binop

SpecDiv == InitDiv /\ [][NextDiv]_vars

\* a / b and a % b of the signed integers a and b, b # 0: the quotient
\* truncated toward zero and the remainder with the sign of a
TruncDiv(op, a, b) ==
    LET qr  == DivMod(MagBytes(a.mag), b.mag[1])
        rem == <<qr.r % 256, qr.r \div 256, 0, 0, 0, 0, 0, 0>>
        u   == IF op = "/" THEN qr.q ELSE rem
        neg == IF op = "/" THEN a.neg # b.neg ELSE a.neg
    IN  [neg |-> neg /\ ~AllZero(u), mag |-> [i \in 1..4 |-> u[2 * i - 1] + 256 * u[2 * i]]]

MinInt == [neg |-> TRUE, mag |-> <<0, 0, 0, 32768>>]

\* the cases of the claim: b # 0, and not the least integer divided by -1
Defined(a, b) == ~IsZero(b) /\ ~(a = MinInt /\ IsMinusOne(b))

\* C26: for int operands a and b with b # 0, the least integer divided by -1
\* excluded, the code emitted for (binop / a1 a2 dst) and (binop % a1 a2 dst)
\* runs to its end and leaves in slot dst the signed truncated quotient,
\* respectively the remainder, of a by b, for negative as well as
\* non-negative a.
C26_SignedDivision ==
    (cpu.pc = "done" /\ Defined(cpu.a, cpu.b))
      => /\ cpu.m.fault = ""
         /\ cpu.m.ip = Len(cpu.buf) + 1
         /\ Signed(cpu.m.mem[8 * cpu.dst]) = TruncDiv(cpu.op, cpu.a, cpu.b)

\* the part of the claim that holds: the non-negative dividends
DivNonNegative ==
    (cpu.pc = "done" /\ Defined(cpu.a, cpu.b) /\ ~cpu.a.neg)
      => /\ cpu.m.fault = ""
         /\ Signed(cpu.m.mem[8 * cpu.dst]) = TruncDiv(cpu.op, cpu.a, cpu.b)

====
